---- MODULE Spec2Model ----
(***************************************************************************)
(* GlobaLens batch processor (src/process-articles/process_articles.py).   *)
(*                                                                         *)
(* The specifications share the definitions below:                         *)
(*   SpecPipe     one call of main_async_pipeline(urls, path): the fetch   *)
(*                tasks behind the semaphore, the producer, the bounded    *)
(*                queue, the PROC consumers and the intermediate log;      *)
(*   Spec         the __main__ batch loop: scan, download, read, pipeline, *)
(*                read-back, merge, insert, copy, delete, except, finally; *)
(*   SpecScan     one scan over any set of names under cleaned_data/;      *)
(*   SpecMerge    the merge loop over any log read back;                   *)
(*   SpecFetch    one call of fetch_html on any response;                  *)
(*   SpecStartup  the start-up in any environment, then the batch loop;    *)
(*   SpecRerun    the batch loop started over what a killed run left;      *)
(*   SpecRemerge  the merge loop run twice over the same rows and log;     *)
(*   SpecEmbed    a sequence of get_embeddings calls on any arguments.     *)
(***************************************************************************)
EXTENDS Integers, Sequences, FiniteSets, TLC

(* ------------------------------ bounds -------------------------------- *)
\* CONN is 10 at process_articles.py:33; it is scaled down here, and every
\* guard and formula is written in terms of the name.
CONN == 1
\* PROC = os.cpu_count() or 4 (line 34), on a host with two cores
PROC == 2
\* number of URLs handed to main_async_pipeline in SpecPipe
NumUrls == 4
\* batch files with a well-formed name in cleaned_data/ at start
NumFiles == 2
\* iterations that reach line 369 before the model stops selecting files
MaxProcessed == 2
\* calls of get_embeddings made in SpecEmbed
MaxCalls == 3

(* ------------------------------ values -------------------------------- *)
None == "None"
\* pandas' missing value in a SOURCEURL cell
NaN == "NaN"
\* a key the dictionary does not have
Absent == "Absent"
\* a name that is not bound yet / oldest_blob = None
Unbound == 0
AllUrls == <<"A", "B", "C", "D", "E", "F", "G", "H">>
PipeUrls == [i \in 1..NumUrls |-> AllUrls[i]]
Consumers == 1..PROC
\* asyncio.Queue(maxsize=CONN * 2)
QueueMaxsize == CONN * 2
\* the shutdown sentinel (None, None)
Sentinel == [url |-> None, html |-> None]
Range(s) == {s[i] : i \in 1..Len(s)}

VARIABLES
    \* ---- main_async_pipeline ----
    main_pc,        \* "idle" | "producer" | "gather" | "returned" | "raised"
    urls,           \* the urls argument
    out_path,       \* the output_ndjson_path argument
    sem,            \* asyncio.Semaphore(CONN)._value
    waiting,        \* URLs whose bounded_fetch has not passed `async with sem`
    inflight,       \* URLs inside fetch_html
    completed,      \* as_completed's queue of finished fetches, arrival order
    prod_pc,        \* "next" | "put" | "sentinels" | "done"
    prod_item,      \* the (url, html) the producer is about to put
    yielded,        \* iterations of the producer's for loop finished
    sentinels_put,  \* sentinels enqueued so far
    queue,          \* asyncio.Queue contents
    cons_pc,        \* per consumer: "get" | "parse" | "exited" | "crashed" | "cancelled"
    cons_item,      \* per consumer: the item being parsed
    \* ---- local file system ----
    ndjson_fs,      \* existing NDJSON logs: path -> sequence of entries
    local_csv,      \* batch CSVs that exist under /tmp
    \* ---- object store and document store ----
    source,         \* blobs under cleaned_data/
    backup,         \* blobs under backup_data/
    csv_of,         \* content of each batch blob
    collection,     \* per batch: insert_many calls that succeeded
    \* ---- __main__ ----
    pc,             \* position in the batch loop
    oldest_blob,
    local_ndjson_output_path,   \* Unbound until line 285 has run once
    df_cleaned_csv,
    urls_to_fetch,
    extracted_articles_data,
    records_to_insert,
    row_idx,        \* position of the merge loop in df_cleaned_csv
    sentence_transformer_model,  \* _sentence_transformer_model
    processed_files_count,
    mongo_closed,
    insert_outcome, \* history: what insert_many did in this iteration
    copy_outcome,   \* history: what copy_blob did in this iteration
    ever_failed,    \* history: some iteration ran an except block (365, 371)
    \* ---- environment ----
    config,         \* the environment: variables set, cluster reachable
    \* ---- one call of fetch_html ----
    response,       \* what session.get(url) meets
    fetch_result,   \* what the call returned
    \* ---- the merge loop run a second time ----
    merged_before,  \* history: records_to_insert of the first run
    \* ---- calls of get_embeddings ----
    embed_call      \* the last call: arguments, result, constructions so far

pvars == <<main_pc, urls, out_path, sem, waiting, inflight, completed, prod_pc,
           prod_item, yielded, sentinels_put, queue, cons_pc, cons_item>>
ovars == <<local_csv, source, backup, csv_of, collection, pc, oldest_blob,
           local_ndjson_output_path, df_cleaned_csv, urls_to_fetch,
           extracted_articles_data, records_to_insert, row_idx,
           sentence_transformer_model, processed_files_count, mongo_closed,
           insert_outcome, copy_outcome, ever_failed, config,
           response, fetch_result, merged_before, embed_call>>
vars == <<pvars, ndjson_fs, ovars>>

(* ----------------------------- environment ----------------------------- *)
\* the environment the process starts in: os.getenv(name) is truthy, for the
\* four names the start-up reads, and the MongoDB cluster answers the ping
ConfigNames == {"GCS_BUCKET_NAME", "MONGODB_USERNAME", "MONGODB_PASSWORD",
                "MONGODB_HOST", "cluster answers"}
Configs == [ConfigNames -> BOOLEAN]
AllSet == [n \in ConfigNames |-> TRUE]

(* ---------------------------- log entries ------------------------------ *)
\* parse_article's success dictionary; art.summary may be empty
ParsedOk(summary) ==
    [title |-> "title", text |-> "text", summary |-> summary,
     keywords |-> "keywords", error |-> None]
\* variant of Failed: the error string next to a populated title
FailedPartial(err) ==
    [title |-> "title", text |-> None, summary |-> None, keywords |-> None,
     error |-> err]
\* the four None content fields with an error string
Failed(err) ==
    [title |-> None, text |-> None, summary |-> None, keywords |-> None,
     error |-> err]
\* what run_in_executor(pool, parse_article, html, url) hands back
ParseResults == {ParsedOk("summary"), ParsedOk(""), Failed("parse_error")}
\* {"url": url, **result}
Entry(url, result) ==
    [url |-> url, title |-> result.title, text |-> result.text,
     summary |-> result.summary, keywords |-> result.keywords,
     error |-> result.error]

(* ------------------------------ fetch_html ----------------------------- *)
\* longest response body, in bytes
MaxBody == 2
\* the bytes a body is made of: "A" and the two bytes of "e acute" in UTF-8
ByteValues == {65, 195, 169}
Bodies == UNION {[1..n -> ByteValues] : n \in 0..MaxBody}
\* decoded_text = None / html = None, among texts that are sequences of
\* code points
NoneText == <<-1>>
\* bytes.decode(codec) returns text / raises exc
Decoded(text) == [exc |-> "none", text |-> text]
DecodeRaises(exc) == [exc |-> exc, text |-> NoneText]
\* raw_bytes.decode('utf-8', errors='strict'), one- and two-byte forms
RECURSIVE Utf8(_)
Utf8(raw) ==
    IF raw = <<>> THEN Decoded(<<>>)
    ELSE IF Head(raw) < 128
         THEN LET rest == Utf8(Tail(raw))
              IN IF rest.exc = "none"
                    THEN Decoded(<<Head(raw)>> \o rest.text) ELSE rest
    ELSE IF Head(raw) \in 194..223 /\ Len(raw) >= 2 /\ raw[2] \in 128..191
         THEN LET rest == Utf8(Tail(Tail(raw)))
              IN IF rest.exc = "none"
                    THEN Decoded(<<(Head(raw) - 192) * 64 + (raw[2] - 128)>>
                                 \o rest.text)
                    ELSE rest
    ELSE DecodeRaises("UnicodeDecodeError")
\* raw_bytes.decode('latin-1'): every byte is its own code point
Latin1(raw) == Decoded(raw)
\* raw_bytes.decode('ascii')
Ascii(raw) ==
    IF \A i \in 1..Len(raw) : raw[i] < 128
       THEN Decoded(raw) ELSE DecodeRaises("UnicodeDecodeError")
\* raw_bytes.decode(charset) for the charsets a header declares here: three
\* real codecs, the codec named "undefined" (raises UnicodeError, which is
\* not a UnicodeDecodeError, on every input) and a name no codec has
Charsets == {"", "utf-8", "latin-1", "ascii", "undefined", "x-unknown"}
Decode(raw, codec) ==
    CASE codec = "utf-8" -> Utf8(raw)
      [] codec = "latin-1" -> Latin1(raw)
      [] codec = "ascii" -> Ascii(raw)
      [] codec = "undefined" -> DecodeRaises("UnicodeError")
      [] OTHER -> DecodeRaises("LookupError")

\* lines 75-91: decoded_text, the codecs tried in order, and the exception
\* that leaves the block, if any
DecodeBody(charset, raw_bytes) ==
    LET declared == Decode(raw_bytes, charset)
        utf8 == Decode(raw_bytes, "utf-8")
        latin1 == Decode(raw_bytes, "latin-1")
        fallback ==
            IF utf8.exc = "none"
               THEN [decoded_text |-> utf8.text, tried |-> <<"utf-8">>,
                     exc |-> "none"]
               ELSE [decoded_text |-> latin1.text,
                     tried |-> <<"utf-8", "latin-1">>, exc |-> "none"]
    IN IF charset = "" THEN fallback
       ELSE IF declared.exc = "none"
            THEN [decoded_text |-> declared.text, tried |-> <<charset>>,
                  exc |-> "none"]
       ELSE IF declared.exc \in {"UnicodeDecodeError", "LookupError"}
            THEN [fallback EXCEPT !.tried = <<charset>> \o @]
       ELSE [decoded_text |-> NoneText, tried |-> <<charset>>,
             exc |-> declared.exc]

\* what session.get(url) can meet: the request fails, the status is an
\* error, reading the body fails, or a body arrives under a Content-Type
MediaTypes == {"", "text/html", "text/plain", "application/pdf"}
Response(get_exc, status, media, charset, read_exc, body) ==
    [get_exc |-> get_exc, status |-> status, media |-> media,
     charset |-> charset, read_exc |-> read_exc, body |-> body]
Responses ==
    {Response(e, 0, "", "", "none", <<>>) :
        e \in {"TimeoutError", "ClientConnectorError"}}
    \cup {Response("none", 404, "text/html", "", "none", <<>>)}
    \cup {Response("none", 200, "text/html", "", "ClientPayloadError", <<>>)}
    \cup {Response("none", 200, m, c, "none", b) :
             m \in MediaTypes, c \in Charsets, b \in Bodies}
NoResponse == Response("not_sent", 0, "", "", "none", <<>>)
NotCalled ==
    [url |-> None, html |-> NoneText, decoded_text |-> NoneText,
     tried |-> <<>>, raised |-> "none"]

\* variant of Caught: only aiohttp's own errors handled
CaughtClientError(exc) ==
    exc \in {"ClientConnectorError", "ClientResponseError", "ClientPayloadError"}

\* `except Exception`, line 99: all of these derive from Exception
Caught(exc) ==
    exc \in {"TimeoutError", "ClientConnectorError", "ClientResponseError",
             "ClientPayloadError", "UnicodeError"}

\* fetch_html(session, url), lines 62-101; decoded_text and tried are the
\* local state of the call, raised is the exception that reaches the caller
FetchHtml(url, resp) ==
    LET d == DecodeBody(resp.charset, resp.body)
        reads == /\ resp.get_exc = "none"
                 /\ resp.status < 400
                 /\ resp.read_exc = "none"
        exc == IF resp.get_exc # "none" THEN resp.get_exc
               ELSE IF resp.status >= 400 THEN "ClientResponseError"
               ELSE IF resp.read_exc # "none" THEN resp.read_exc
               ELSE d.exc
        is_text == /\ d.decoded_text \notin {NoneText, <<>>}
                   /\ resp.media \in {"text/html", "text/plain"}
    IN [url |-> url,
        html |-> IF exc = "none" /\ is_text THEN d.decoded_text ELSE NoneText,
        decoded_text |-> IF reads THEN d.decoded_text ELSE NoneText,
        tried |-> IF reads THEN d.tried ELSE <<>>,
        raised |-> IF exc = "none" \/ Caught(exc) THEN "none" ELSE exc]

(* ---------------------------- get_embeddings --------------------------- *)
\* no call of get_embeddings made yet
NoCall ==
    [calls |-> 0, text |-> None, embedding_type |-> "none", load |-> "none",
     encode |-> "none", result |-> None, constructions |-> 0, failures |-> 0, raised |-> FALSE]

\* variant of NeedsLoad: the model constructed on every call
NeedsLoadAlways(handle) == TRUE

\* `if _sentence_transformer_model is None`, line 160
NeedsLoad(handle) == handle = None

\* get_embeddings(text, embedding_type), lines 155-182, on the module-level
\* handle.  load is what login()/SentenceTransformer() do when they are
\* called ("ok" or "raises"), encode what model.encode(text) does.  The
\* result is None or "vector" (embedding.tolist()); handle is the module-level
\* handle afterwards; load and encode tell what became of the two library
\* calls ("none": not called); constructed counts the assignment of line 166.
GetEmbeddings(text, embedding_type, handle, load, encode) ==
    IF embedding_type = "sentencetransformer"
    THEN IF NeedsLoad(handle) /\ load = "raises"
         THEN [result |-> None, handle |-> handle, load |-> "failed",
               encode |-> "none", constructed |-> 0, raised |-> FALSE]
         ELSE LET loaded == IF NeedsLoad(handle) THEN "ok" ELSE "none"
                  made == IF NeedsLoad(handle) THEN 1 ELSE 0
              IN IF text \in {None, NaN}
                 THEN [result |-> None, handle |-> "loaded", load |-> loaded,
                       encode |-> "none", constructed |-> made, raised |-> FALSE]
                 ELSE IF encode = "raises"
                 THEN [result |-> None, handle |-> "loaded", load |-> loaded,
                       encode |-> "failed", constructed |-> made, raised |-> FALSE]
                 ELSE [result |-> "vector", handle |-> "loaded", load |-> loaded,
                       encode |-> "ok", constructed |-> made, raised |-> FALSE]
    ELSE [result |-> None, handle |-> handle, load |-> "none",
          encode |-> "none", constructed |-> 0, raised |-> FALSE]

(* --------------------------- main_async_pipeline ----------------------- *)
Running == pc = "pipeline" /\ main_pc \in {"producer", "gather"}

\* the state right after main_async_pipeline(us, path) has created the queue
\* and the consumer tasks and the producer has created one task per URL
PipelineStarted(us, path) ==
    /\ main_pc' = "producer"
    /\ urls' = us
    /\ out_path' = path
    /\ sem' = CONN
    /\ waiting' = Range(us)
    /\ inflight' = {}
    /\ completed' = <<>>
    /\ prod_pc' = "next"
    /\ prod_item' = Sentinel
    /\ yielded' = 0
    /\ sentinels_put' = 0
    /\ queue' = <<>>
    /\ cons_pc' = [c \in Consumers |-> "get"]
    /\ cons_item' = [c \in Consumers |-> Sentinel]

\* variant of Acquire: the fetch starts without taking the semaphore
AcquireFree(u) ==
    /\ inflight' = inflight \cup {u}
    /\ sem' = sem
\* bounded_fetch: `async with sem`, then fetch_html starts
Acquire(u) ==
    /\ sem > 0
    /\ sem' = sem - 1
    /\ inflight' = inflight \cup {u}

\* The tasks wait on the semaphore in the order asyncio first ran them
\* (its waiters are first-in first-out); the URLs being interchangeable,
\* that order is taken to be the order of `urls`.
NextWaiting(u) ==
    /\ u \in waiting
    /\ \A i, j \in 1..Len(urls) : (urls[j] = u /\ i < j) => urls[i] \notin waiting

StartFetch(u) ==
    /\ Running
    /\ NextWaiting(u)
    /\ Acquire(u)
    /\ waiting' = waiting \ {u}
    /\ UNCHANGED <<ovars, main_pc, urls, out_path, completed, prod_pc, prod_item,
                   yielded, sentinels_put, queue, cons_pc, cons_item, ndjson_fs>>

\* fetch_html returns (url, html) or (url, None); the semaphore is released
\* and as_completed records the finished task
FinishFetch(u, html) ==
    /\ Running
    /\ u \in inflight
    /\ inflight' = inflight \ {u}
    /\ sem' = sem + 1
    /\ completed' = Append(completed, [url |-> u, html |-> html])
    /\ UNCHANGED <<ovars, main_pc, urls, out_path, waiting, prod_pc, prod_item,
                   yielded, sentinels_put, queue, cons_pc, cons_item, ndjson_fs>>

\* producer: `url, html = await coro`
ProducerNext ==
    /\ Running
    /\ prod_pc = "next"
    /\ completed # <<>>
    /\ prod_item' = Head(completed)
    /\ completed' = Tail(completed)
    /\ prod_pc' = "put"
    /\ UNCHANGED <<ovars, main_pc, urls, out_path, sem, waiting, inflight, yielded,
                   sentinels_put, queue, cons_pc, cons_item, ndjson_fs>>

\* variant of QueuePut: a queue without maxsize
QueuePutUnbounded(item) == queue' = Append(queue, item)

\* asyncio.Queue.put: waits while the queue is full
QueuePut(item) ==
    /\ Len(queue) < QueueMaxsize
    /\ queue' = Append(queue, item)

\* producer: `await queue.put((url, html))`
ProducerPut ==
    /\ Running
    /\ prod_pc = "put"
    /\ QueuePut(prod_item)
    /\ yielded' = yielded + 1
    /\ prod_pc' = IF yielded + 1 = Len(urls) THEN "sentinels" ELSE "next"
    /\ prod_item' = Sentinel
    /\ UNCHANGED <<ovars, main_pc, urls, out_path, sem, waiting, inflight, completed,
                   sentinels_put, cons_pc, cons_item, ndjson_fs>>

\* variant of SentinelCount: one sentinel too few: range(PROC - 1)
SentinelCountShort == PROC - 1
\* the number of sentinels the producer enqueues: range(PROC)
SentinelCount == PROC

\* producer: `for _ in range(PROC): await queue.put((None, None))`; after the
\* last one producer() returns and main_async_pipeline reaches gather
ProducerSentinel ==
    /\ Running
    /\ prod_pc = "sentinels"
    /\ QueuePut(Sentinel)
    /\ sentinels_put' = sentinels_put + 1
    /\ IF sentinels_put + 1 >= SentinelCount
          THEN prod_pc' = "done" /\ main_pc' = "gather"
          ELSE prod_pc' = "sentinels" /\ main_pc' = main_pc
    /\ UNCHANGED <<ovars, urls, out_path, sem, waiting, inflight, completed, prod_item,
                   yielded, cons_pc, cons_item, ndjson_fs>>

\* variant of AppendLine: the log opened with mode "w": earlier lines are lost
AppendLineTruncating(path, entry) ==
    ndjson_fs' = [p \in DOMAIN ndjson_fs \cup {path} |-> <<entry>>]
\* `with open(out_path, "a") as f: f.write(json.dumps(...) + "\n")`: the file
\* is created when missing and one line is appended
AppendLine(path, entry) ==
    ndjson_fs' = [p \in DOMAIN ndjson_fs \cup {path} |->
                    IF p = path
                       THEN (IF p \in DOMAIN ndjson_fs THEN ndjson_fs[p] ELSE <<>>)
                                \o <<entry>>
                       ELSE ndjson_fs[p]]

\* consumer: queue.get() returns the sentinel: break
ConsumerSentinel(c) ==
    /\ Running
    /\ cons_pc[c] = "get"
    /\ queue # <<>>
    /\ Head(queue).url = None
    /\ queue' = Tail(queue)
    /\ cons_pc' = [cons_pc EXCEPT ![c] = "exited"]
    /\ UNCHANGED <<ovars, main_pc, urls, out_path, sem, waiting, inflight, completed,
                   prod_pc, prod_item, yielded, sentinels_put, cons_item, ndjson_fs>>

\* variant of ConsumerDownloadFailed: the item dropped without a log entry
ConsumerDownloadFailedSilent(c) ==
    /\ Running
    /\ cons_pc[c] = "get"
    /\ queue # <<>>
    /\ Head(queue).url # None
    /\ Head(queue).html = None
    /\ queue' = Tail(queue)
    /\ UNCHANGED <<ovars, main_pc, urls, out_path, sem, waiting, inflight, completed,
                   prod_pc, prod_item, yielded, sentinels_put, cons_pc, cons_item,
                   ndjson_fs>>

\* consumer: queue.get() returns (url, None): the download_failed entry is
\* appended with no suspension point in between
ConsumerDownloadFailed(c) ==
    /\ Running
    /\ cons_pc[c] = "get"
    /\ queue # <<>>
    /\ Head(queue).url # None
    /\ Head(queue).html = None
    /\ queue' = Tail(queue)
    /\ AppendLine(out_path, Entry(Head(queue).url, Failed("download_failed")))
    /\ UNCHANGED <<ovars, main_pc, urls, out_path, sem, waiting, inflight, completed,
                   prod_pc, prod_item, yielded, sentinels_put, cons_pc, cons_item>>

\* variant of ConsumerSubmit: every item with a URL goes to the pool
ConsumerSubmitAny(c) ==
    /\ Running
    /\ cons_pc[c] = "get"
    /\ queue # <<>>
    /\ Head(queue).url # None
    /\ queue' = Tail(queue)
    /\ cons_item' = [cons_item EXCEPT ![c] = Head(queue)]
    /\ cons_pc' = [cons_pc EXCEPT ![c] = "parse"]
    /\ UNCHANGED <<ovars, main_pc, urls, out_path, sem, waiting, inflight, completed,
                   prod_pc, prod_item, yielded, sentinels_put, ndjson_fs>>

\* consumer: queue.get() returns (url, html): parse_article is submitted to
\* the pool and the consumer awaits the result
ConsumerSubmit(c) ==
    /\ Running
    /\ cons_pc[c] = "get"
    /\ queue # <<>>
    /\ Head(queue).url # None
    /\ Head(queue).html # None
    /\ queue' = Tail(queue)
    /\ cons_item' = [cons_item EXCEPT ![c] = Head(queue)]
    /\ cons_pc' = [cons_pc EXCEPT ![c] = "parse"]
    /\ UNCHANGED <<ovars, main_pc, urls, out_path, sem, waiting, inflight, completed,
                   prod_pc, prod_item, yielded, sentinels_put, ndjson_fs>>

\* variant of ConsumerParsed: a suspension point inside the write: the line
\* goes out in two pieces and other consumers run in between
ConsumerParsedSuspended(c, result) ==
    /\ Running
    /\ \/ /\ cons_pc[c] = "parse"
          /\ AppendLine(out_path, [Entry(cons_item[c].url, result) EXCEPT
                                      !.summary = Absent, !.keywords = Absent,
                                      !.error = Absent])
          /\ cons_pc' = [cons_pc EXCEPT ![c] = "writing"]
          /\ cons_item' = cons_item
       \/ /\ cons_pc[c] = "writing"
          /\ AppendLine(out_path, [Entry(cons_item[c].url, result) EXCEPT
                                      !.url = Absent, !.title = Absent,
                                      !.text = Absent])
          /\ cons_pc' = [cons_pc EXCEPT ![c] = "get"]
          /\ cons_item' = [cons_item EXCEPT ![c] = Sentinel]
    /\ UNCHANGED <<ovars, main_pc, urls, out_path, sem, waiting, inflight, completed,
                   prod_pc, prod_item, yielded, sentinels_put, queue>>

\* consumer: the pool returns parse_article's dictionary; the entry is appended
ConsumerParsed(c, result) ==
    /\ Running
    /\ cons_pc[c] = "parse"
    /\ AppendLine(out_path, Entry(cons_item[c].url, result))
    /\ cons_pc' = [cons_pc EXCEPT ![c] = "get"]
    /\ cons_item' = [cons_item EXCEPT ![c] = Sentinel]
    /\ UNCHANGED <<ovars, main_pc, urls, out_path, sem, waiting, inflight, completed,
                   prod_pc, prod_item, yielded, sentinels_put, queue>>

\* consumer: run_in_executor raises (a broken pool): `except Exception`
\* builds the parse_error entry, which is appended (the text after
\* "parse_error" is not modelled, so the entry equals parse_article's)
ConsumerPoolRaised(c) ==
    /\ Running
    /\ cons_pc[c] = "parse"
    /\ AppendLine(out_path, Entry(cons_item[c].url, Failed("parse_error")))
    /\ cons_pc' = [cons_pc EXCEPT ![c] = "get"]
    /\ cons_item' = [cons_item EXCEPT ![c] = Sentinel]
    /\ UNCHANGED <<ovars, main_pc, urls, out_path, sem, waiting, inflight, completed,
                   prod_pc, prod_item, yielded, sentinels_put, queue>>

\* consumer: open()/write() of the log raises OSError after a get: nothing
\* catches it, the consumer task ends with the exception
ConsumerAppendRaisesAbsent(c) ==
    /\ Running
    /\ cons_pc[c] = "get"
    /\ queue # <<>>
    /\ Head(queue).url # None
    /\ Head(queue).html = None
    /\ queue' = Tail(queue)
    /\ cons_pc' = [cons_pc EXCEPT ![c] = "crashed"]
    /\ UNCHANGED <<ovars, main_pc, urls, out_path, sem, waiting, inflight, completed,
                   prod_pc, prod_item, yielded, sentinels_put, cons_item, ndjson_fs>>

ConsumerAppendRaisesParsed(c) ==
    /\ Running
    /\ cons_pc[c] = "parse"
    /\ cons_pc' = [cons_pc EXCEPT ![c] = "crashed"]
    /\ UNCHANGED <<ovars, main_pc, urls, out_path, sem, waiting, inflight, completed,
                   prod_pc, prod_item, yielded, sentinels_put, queue, cons_item,
                   ndjson_fs>>

\* variant of GatherReturns: gather returning when the first consumer is done
GatherReturnsEarly ==
    /\ pc = "pipeline"
    /\ main_pc = "gather"
    /\ \E c \in Consumers : cons_pc[c] = "exited"
    /\ \A c \in Consumers : cons_pc[c] # "crashed"
    /\ main_pc' = "returned"
    /\ UNCHANGED <<ovars, urls, out_path, sem, waiting, inflight, completed, prod_pc,
                   prod_item, yielded, sentinels_put, queue, cons_pc, cons_item,
                   ndjson_fs>>

\* `await asyncio.gather(*consumers)` with every consumer finished normally
GatherReturns ==
    /\ pc = "pipeline"
    /\ main_pc = "gather"
    /\ \A c \in Consumers : cons_pc[c] = "exited"
    /\ main_pc' = "returned"
    /\ UNCHANGED <<ovars, urls, out_path, sem, waiting, inflight, completed, prod_pc,
                   prod_item, yielded, sentinels_put, queue, cons_pc, cons_item,
                   ndjson_fs>>

\* gather re-raises the first consumer exception; asyncio.run then cancels
\* the tasks that are still pending before it raises to its caller
GatherRaises ==
    /\ pc = "pipeline"
    /\ main_pc = "gather"
    /\ \E c \in Consumers : cons_pc[c] = "crashed"
    /\ main_pc' = "raised"
    /\ cons_pc' = [c \in Consumers |->
                     IF cons_pc[c] \in {"get", "parse"} THEN "cancelled"
                                                        ELSE cons_pc[c]]
    /\ UNCHANGED <<ovars, urls, out_path, sem, waiting, inflight, completed, prod_pc,
                   prod_item, yielded, sentinels_put, queue, cons_item, ndjson_fs>>

PipelineStep ==
    \/ \E u \in Range(urls) : StartFetch(u)
    \/ \E u \in Range(urls), html \in {None, "html"} : FinishFetch(u, html)
    \/ ProducerNext
    \/ ProducerPut
    \/ ProducerSentinel
    \/ \E c \in Consumers : ConsumerSentinel(c)
    \/ \E c \in Consumers : ConsumerDownloadFailed(c)
    \/ \E c \in Consumers : ConsumerSubmit(c)
    \/ \E c \in Consumers, r \in ParseResults : ConsumerParsed(c, r)
    \/ \E c \in Consumers : ConsumerPoolRaised(c)
    \/ \E c \in Consumers : ConsumerAppendRaisesAbsent(c)
    \/ \E c \in Consumers : ConsumerAppendRaisesParsed(c)
    \/ GatherReturns
    \/ GatherRaises

(* ------------------------------ object store --------------------------- *)
\* cleaned_data/<YYYYMMDDHHMMSS>_cleaned.csv for blobs 1..NumFiles, whose
\* timestamp is their number; BadBlob is cleaned_data/<text>_cleaned.csv
Files == 1..NumFiles
BadBlob == NumFiles + 1
AllBlobs == Files \cup {BadBlob}
\* cleaned_data/archive/<YYYYMMDDHHMMSS>_cleaned.csv: line 253 leaves
\* "archive/<digits>", which strptime rejects
NestedBlob == NumFiles + 2
\* cleaned_data/<13 digits>_cleaned.csv, a name strptime reads as the same
\* instant as blob 1 ("2024011000000" and "20240110000000" both give
\* 2024-01-10 00:00:00)
TwinBlob == NumFiles + 3
\* cleaned_data/<YYYYMMDDHHMMSS> with nothing after the digits, older than
\* every batch file
BareBlob == NumFiles + 4
\* every name list_blobs(prefix=cleaned_data_prefix) can return
ScanBlobs == AllBlobs \cup {NestedBlob, TwinBlob, BareBlob}
ValueError == -1
\* blob.name.endswith("_cleaned.csv") and blob.name.startswith(prefix), line 251
EndsWithCleaned(b) == b # BareBlob
\* datetime.strptime(timestamp_str, "%Y%m%d%H%M%S") on the name with the
\* prefix and everything from "_cleaned.csv" on removed, lines 252-256
Strptime(b) ==
    IF b \in {BadBlob, NestedBlob} THEN ValueError
    ELSE IF b = TwinBlob THEN 1
    ELSE IF b = BareBlob THEN 0
    ELSE b

\* variant of Older: the comparison of line 258 turned round
Newer(ts, oldest) == oldest = Unbound \/ ts > Strptime(oldest)

\* oldest_timestamp is None or current_timestamp < oldest_timestamp, line 258
Older(ts, oldest) == oldest = Unbound \/ ts < Strptime(oldest)

\* the scan loop over one listing, lines 250-261
RECURSIVE ScanFrom(_, _, _)
ScanFrom(listing, i, oldest) ==
    IF i > Len(listing) THEN oldest
    ELSE LET b == listing[i]
             ts == Strptime(b)
         IN IF ~EndsWithCleaned(b) THEN ScanFrom(listing, i + 1, oldest)
            ELSE IF ts = ValueError THEN ScanFrom(listing, i + 1, oldest)
            ELSE IF Older(ts, oldest)
                 THEN ScanFrom(listing, i + 1, b)
                 ELSE ScanFrom(listing, i + 1, oldest)
Listings(S) ==
    {l \in [1..Cardinality(S) -> S] : \A i, j \in DOMAIN l : l[i] = l[j] => i = j}

(* ------------------------------ batch CSVs ----------------------------- *)
AllColumns == {"SQLDATE", "NumMentions", "SOURCEURL", "latitude", "longitude"}
Row(i, u) ==
    [SQLDATE |-> "2024-01-01", NumMentions |-> i, SOURCEURL |-> u,
     latitude |-> "lat", longitude |-> "lon"]
Csv(cols, us) ==
    [parses |-> TRUE, columns |-> cols, rows |-> [i \in DOMAIN us |-> Row(i, us[i])]]
\* the contents a batch blob can have
CsvChoices ==
    { Csv(AllColumns, <<"A", NaN, "A", "B">>),        \* a duplicate and a null URL
      Csv(AllColumns, <<>>),                          \* header only
      Csv(AllColumns, <<NaN>>),                       \* no URL at all
      Csv(AllColumns \ {"SOURCEURL"}, <<NaN>>),       \* no SOURCEURL column
      Csv(AllColumns \ {"latitude"}, <<"A">>),        \* no latitude column
      [parses |-> FALSE, columns |-> {}, rows |-> <<>>] }  \* read_csv raises
NoFrame == [parses |-> FALSE, columns |-> {}, rows |-> <<>>]

\* variant of UniqueUrls: dropna() without unique()
RECURSIVE NonNullUrls(_, _)
NonNullUrls(rows, i) ==
    IF i = 0 THEN <<>>
    ELSE LET before == NonNullUrls(rows, i - 1)
             u == rows[i].SOURCEURL
         IN IF u = NaN THEN before ELSE Append(before, u)

\* df["SOURCEURL"].dropna().unique().tolist(): first occurrences, in order
RECURSIVE UniqueUrls(_, _)
UniqueUrls(rows, i) ==
    IF i = 0 THEN <<>>
    ELSE LET before == UniqueUrls(rows, i - 1)
             u == rows[i].SOURCEURL
         IN IF u = NaN \/ u \in Range(before) THEN before ELSE Append(before, u)

(* -------------------------------- merge -------------------------------- *)
\* ndjson_lookup = {art.get('url'): art for art in ...}: the last entry wins
LookupKeys(data) == {data[i].url : i \in 1..Len(data)}
Lookup(data, u) ==
    LET last == CHOOSE i \in 1..Len(data) :
                    /\ data[i].url = u
                    /\ \A j \in 1..Len(data) : data[j].url = u => j <= i
    IN data[last]

\* the embedding is attempted: summary_text and isinstance(summary_text, str)
\* and summary_text.strip() and summary_text != 'null'
SummaryUsable(s) == s \notin {None, "", " ", "null", Absent}
Attempts(data, row) ==
    /\ row.SOURCEURL \in LookupKeys(data)
    /\ SummaryUsable(Lookup(data, row.SOURCEURL).summary)

\* get_embeddings: what it can do given the model handle
EmbedOutcomes(handle) ==
    {"vector", "encode_failed"} \cup (IF handle = None THEN {"load_failed"} ELSE {})

\* variant of Combined: a failed embedding leaves no embedding_error
CombinedFailureSilent(data, row, o) ==
    LET base == [SQLDATE |-> row.SQLDATE, NumMentions |-> row.NumMentions,
                 SOURCEURL |-> row.SOURCEURL, latitude |-> row.latitude,
                 longitude |-> row.longitude]
    IN IF row.SOURCEURL \in LookupKeys(data)
       THEN LET art == Lookup(data, row.SOURCEURL)
            IN base @@ [url |-> art.url, title |-> art.title, text |-> art.text,
                        summary |-> art.summary, keywords |-> art.keywords,
                        error |-> Absent,
                        summary_embedding |->
                            IF SummaryUsable(art.summary)
                               THEN (IF o = "vector" THEN "vector" ELSE Absent)
                               ELSE None,
                        embedding_error |-> Absent]
       ELSE base @@ [url |-> Absent, title |-> None, text |-> None,
                     summary |-> None, keywords |-> None,
                     error |-> "no_ndjson_match",
                     summary_embedding |-> Absent, embedding_error |-> Absent]

\* one row's combined_article, lines 313-342; o is what get_embeddings did
Combined(data, row, o) ==
    LET base == [SQLDATE |-> row.SQLDATE, NumMentions |-> row.NumMentions,
                 SOURCEURL |-> row.SOURCEURL, latitude |-> row.latitude,
                 longitude |-> row.longitude]
    IN IF row.SOURCEURL \in LookupKeys(data)
       THEN LET art == Lookup(data, row.SOURCEURL)
            IN base @@ [url |-> art.url, title |-> art.title, text |-> art.text,
                        summary |-> art.summary, keywords |-> art.keywords,
                        error |-> Absent,
                        summary_embedding |->
                            IF SummaryUsable(art.summary)
                               THEN (IF o = "vector" THEN "vector" ELSE Absent)
                               ELSE None,
                        embedding_error |->
                            IF SummaryUsable(art.summary) /\ o # "vector"
                               THEN "embedding_generation_failed" ELSE Absent]
       ELSE base @@ [url |-> Absent, title |-> None, text |-> None,
                     summary |-> None, keywords |-> None,
                     error |-> "no_ndjson_match",
                     summary_embedding |-> Absent, embedding_error |-> Absent]

(* ------------------------------- __main__ ------------------------------ *)
PipeIdle ==
    /\ main_pc' = "idle"
    /\ urls' = <<>>
    /\ out_path' = Unbound
    /\ sem' = 0
    /\ waiting' = {}
    /\ inflight' = {}
    /\ completed' = <<>>
    /\ prod_pc' = "done"
    /\ prod_item' = Sentinel
    /\ yielded' = 0
    /\ sentinels_put' = 0
    /\ queue' = <<>>
    /\ cons_pc' = [c \in Consumers |-> "exited"]
    /\ cons_item' = [c \in Consumers |-> Sentinel]

\* variant of RemoveLog: an existing log left in place
RemoveLogKept(path) == ndjson_fs' = ndjson_fs

\* os.remove(path) when os.path.exists(path)
RemoveLog(path) ==
    ndjson_fs' = [p \in DOMAIN ndjson_fs \ {path} |-> ndjson_fs[p]]

\* lines 244-267: a blob was found; the loop body starts
ScanSelect ==
    /\ pc = "scan"
    /\ processed_files_count < MaxProcessed
    /\ \E listing \in Listings(source) :
          /\ ScanFrom(listing, 1, Unbound) # Unbound
          /\ oldest_blob' = ScanFrom(listing, 1, Unbound)
    /\ pc' = "download"
    /\ insert_outcome' = "none"
    /\ copy_outcome' = "none"
    /\ UNCHANGED <<config, response, fetch_result, merged_before, embed_call, ever_failed,
                   pvars, ndjson_fs, local_csv, source, backup, csv_of, collection,
                   local_ndjson_output_path, df_cleaned_csv, urls_to_fetch,
                   extracted_articles_data, records_to_insert, row_idx,
                   sentence_transformer_model, processed_files_count, mongo_closed>>

\* variant of ScanNone: the break without mongo_client.close()
ScanNoneUnclosed ==
    /\ pc = "scan"
    /\ \E listing \in Listings(source) : ScanFrom(listing, 1, Unbound) = Unbound
    /\ pc' = "done"
    /\ oldest_blob' = Unbound
    /\ UNCHANGED <<config, response, fetch_result, merged_before, embed_call, ever_failed, mongo_closed,
                   pvars, ndjson_fs, local_csv, source, backup, csv_of, collection,
                   local_ndjson_output_path, df_cleaned_csv, urls_to_fetch,
                   extracted_articles_data, records_to_insert, row_idx,
                   sentence_transformer_model, processed_files_count,
                   insert_outcome, copy_outcome>>

\* lines 263-265 and 385-387: nothing to process, break, close the client
ScanNone ==
    /\ pc = "scan"
    /\ \E listing \in Listings(source) : ScanFrom(listing, 1, Unbound) = Unbound
    /\ pc' = "done"
    /\ oldest_blob' = Unbound
    /\ mongo_closed' = TRUE
    /\ UNCHANGED <<config, response, fetch_result, merged_before, embed_call, ever_failed,
                   pvars, ndjson_fs, local_csv, source, backup, csv_of, collection,
                   local_ndjson_output_path, df_cleaned_csv, urls_to_fetch,
                   extracted_articles_data, records_to_insert, row_idx,
                   sentence_transformer_model, processed_files_count,
                   insert_outcome, copy_outcome>>

\* line 275: download_to_filename
DownloadOk ==
    /\ pc = "download"
    /\ local_csv' = local_csv \cup {oldest_blob}
    /\ pc' = "read_csv"
    /\ UNCHANGED <<config, response, fetch_result, merged_before, embed_call, ever_failed,
                   pvars, ndjson_fs, source, backup, csv_of, collection, oldest_blob,
                   local_ndjson_output_path, df_cleaned_csv, urls_to_fetch,
                   extracted_articles_data, records_to_insert, row_idx,
                   sentence_transformer_model, processed_files_count, mongo_closed,
                   insert_outcome, copy_outcome>>

DownloadRaises ==
    /\ pc = "download"
    /\ pc' = "except"
    /\ UNCHANGED <<config, response, fetch_result, merged_before, embed_call, ever_failed,
                   pvars, ndjson_fs, local_csv, source, backup, csv_of, collection,
                   oldest_blob, local_ndjson_output_path, df_cleaned_csv,
                   urls_to_fetch, extracted_articles_data, records_to_insert, row_idx,
                   sentence_transformer_model, processed_files_count, mongo_closed,
                   insert_outcome, copy_outcome>>

\* lines 279-280 raise: pd.read_csv fails or there is no SOURCEURL column;
\* line 285 has not run
ReadCsvRaises ==
    /\ pc = "read_csv"
    /\ LET csv == csv_of[oldest_blob]
       IN /\ ~csv.parses \/ "SOURCEURL" \notin csv.columns
          /\ df_cleaned_csv' = IF csv.parses THEN csv ELSE df_cleaned_csv
    /\ pc' = "except"
    /\ UNCHANGED <<config, response, fetch_result, merged_before, embed_call, ever_failed,
                   pvars, ndjson_fs, local_csv, source, backup, csv_of, collection,
                   oldest_blob, local_ndjson_output_path, urls_to_fetch,
                   extracted_articles_data, records_to_insert, row_idx,
                   sentence_transformer_model, processed_files_count, mongo_closed,
                   insert_outcome, copy_outcome>>

\* lines 279-289 and 309-310: no URL in the CSV, extraction is skipped
ReadCsvNoUrls ==
    /\ pc = "read_csv"
    /\ LET csv == csv_of[oldest_blob]
       IN /\ csv.parses /\ "SOURCEURL" \in csv.columns
          /\ UniqueUrls(csv.rows, Len(csv.rows)) = <<>>
          /\ df_cleaned_csv' = csv
          /\ pc' = IF csv.rows = <<>> THEN "insert" ELSE "merge"
    /\ urls_to_fetch' = <<>>
    /\ local_ndjson_output_path' = oldest_blob
    /\ extracted_articles_data' = <<>>
    /\ records_to_insert' = <<>>
    /\ row_idx' = 1
    /\ UNCHANGED <<config, response, fetch_result, merged_before, embed_call, ever_failed,
                   pvars, ndjson_fs, local_csv, source, backup, csv_of, collection,
                   oldest_blob, sentence_transformer_model, processed_files_count,
                   mongo_closed, insert_outcome, copy_outcome>>

\* lines 279-295: the old log is removed and main_async_pipeline starts
ReadCsvRunPipeline ==
    /\ pc = "read_csv"
    /\ LET csv == csv_of[oldest_blob]
       IN /\ csv.parses /\ "SOURCEURL" \in csv.columns
          /\ UniqueUrls(csv.rows, Len(csv.rows)) # <<>>
          /\ df_cleaned_csv' = csv
          /\ urls_to_fetch' = UniqueUrls(csv.rows, Len(csv.rows))
          /\ PipelineStarted(UniqueUrls(csv.rows, Len(csv.rows)), oldest_blob)
    /\ local_ndjson_output_path' = oldest_blob
    /\ RemoveLog(oldest_blob)
    /\ pc' = "pipeline"
    /\ UNCHANGED <<config, response, fetch_result, merged_before, embed_call, ever_failed,
                   local_csv, source, backup, csv_of, collection, oldest_blob,
                   extracted_articles_data, records_to_insert, row_idx,
                   sentence_transformer_model, processed_files_count, mongo_closed,
                   insert_outcome, copy_outcome>>

\* lines 296-310: asyncio.run returned; the log is read back line by line
ReadBack ==
    /\ pc = "pipeline"
    /\ main_pc = "returned"
    /\ extracted_articles_data' =
          IF local_ndjson_output_path \in DOMAIN ndjson_fs
             THEN ndjson_fs[local_ndjson_output_path] ELSE <<>>
    /\ records_to_insert' = <<>>
    /\ row_idx' = 1
    /\ pc' = "merge"
    /\ PipeIdle
    /\ UNCHANGED <<config, response, fetch_result, merged_before, embed_call, ever_failed,
                   ndjson_fs, local_csv, source, backup, csv_of, collection,
                   oldest_blob, local_ndjson_output_path, df_cleaned_csv,
                   urls_to_fetch, sentence_transformer_model, processed_files_count,
                   mongo_closed, insert_outcome, copy_outcome>>

\* line 295 raises what gather raised
PipelineRaised ==
    /\ pc = "pipeline"
    /\ main_pc = "raised"
    /\ pc' = "except"
    /\ PipeIdle
    /\ UNCHANGED <<config, response, fetch_result, merged_before, embed_call, ever_failed,
                   ndjson_fs, local_csv, source, backup, csv_of, collection,
                   oldest_blob, local_ndjson_output_path, df_cleaned_csv,
                   urls_to_fetch, extracted_articles_data, records_to_insert, row_idx,
                   sentence_transformer_model, processed_files_count, mongo_closed,
                   insert_outcome, copy_outcome>>

\* variant of MergeRow: the loop body appending only rows that have a log entry
MergeRowSkipUnmatched(o) ==
    /\ pc = "merge"
    /\ row_idx <= Len(df_cleaned_csv.rows)
    /\ AllColumns \subseteq df_cleaned_csv.columns
    /\ LET row == df_cleaned_csv.rows[row_idx]
       IN /\ IF Attempts(extracted_articles_data, row)
                THEN o \in EmbedOutcomes(sentence_transformer_model)
                ELSE o = "not_called"
          /\ records_to_insert' =
                IF row.SOURCEURL \in LookupKeys(extracted_articles_data)
                   THEN Append(records_to_insert,
                               Combined(extracted_articles_data, row, o))
                   ELSE records_to_insert
          /\ sentence_transformer_model' =
                IF o \in {"vector", "encode_failed"} THEN "loaded"
                ELSE sentence_transformer_model
    /\ row_idx' = row_idx + 1
    /\ pc' = IF row_idx = Len(df_cleaned_csv.rows) THEN "insert" ELSE "merge"
    /\ UNCHANGED <<config, response, fetch_result, merged_before, embed_call, ever_failed,
                   pvars, ndjson_fs, local_csv, source, backup, csv_of, collection,
                   oldest_blob, local_ndjson_output_path, df_cleaned_csv,
                   urls_to_fetch, extracted_articles_data, processed_files_count,
                   mongo_closed, insert_outcome, copy_outcome>>

\* one iteration of the merge loop, lines 312-343, that appends its record
MergeRow(o) ==
    /\ pc = "merge"
    /\ row_idx <= Len(df_cleaned_csv.rows)
    /\ AllColumns \subseteq df_cleaned_csv.columns
    /\ LET row == df_cleaned_csv.rows[row_idx]
       IN /\ IF Attempts(extracted_articles_data, row)
                THEN o \in EmbedOutcomes(sentence_transformer_model)
                ELSE o = "not_called"
          /\ records_to_insert' =
                Append(records_to_insert, Combined(extracted_articles_data, row, o))
          /\ sentence_transformer_model' =
                IF o \in {"vector", "encode_failed"} THEN "loaded"
                ELSE sentence_transformer_model
    /\ row_idx' = row_idx + 1
    /\ pc' = IF row_idx = Len(df_cleaned_csv.rows) THEN "insert" ELSE "merge"
    /\ UNCHANGED <<config, response, fetch_result, merged_before, embed_call, ever_failed,
                   pvars, ndjson_fs, local_csv, source, backup, csv_of, collection,
                   oldest_blob, local_ndjson_output_path, df_cleaned_csv,
                   urls_to_fetch, extracted_articles_data, processed_files_count,
                   mongo_closed, insert_outcome, copy_outcome>>

\* lines 313-319 raise KeyError: the frame lacks a column the loop reads
MergeRaises ==
    /\ pc = "merge"
    /\ row_idx <= Len(df_cleaned_csv.rows)
    /\ ~(AllColumns \subseteq df_cleaned_csv.columns)
    /\ pc' = "except"
    /\ UNCHANGED <<config, response, fetch_result, merged_before, embed_call, ever_failed,
                   pvars, ndjson_fs, local_csv, source, backup, csv_of, collection,
                   oldest_blob, local_ndjson_output_path, df_cleaned_csv,
                   urls_to_fetch, extracted_articles_data, records_to_insert, row_idx,
                   sentence_transformer_model, processed_files_count, mongo_closed,
                   insert_outcome, copy_outcome>>

\* lines 347-349: insert_many succeeds
InsertOk ==
    /\ pc = "insert"
    /\ records_to_insert # <<>>
    /\ collection' = [collection EXCEPT ![oldest_blob] = @ + 1]
    /\ insert_outcome' = "ok"
    /\ pc' = "copy"
    /\ UNCHANGED <<config, response, fetch_result, merged_before, embed_call, ever_failed,
                   pvars, ndjson_fs, local_csv, source, backup, csv_of, oldest_blob,
                   local_ndjson_output_path, df_cleaned_csv, urls_to_fetch,
                   extracted_articles_data, records_to_insert, row_idx,
                   sentence_transformer_model, processed_files_count,
                   mongo_closed, copy_outcome>>

\* lines 350-351: nothing to insert
InsertSkipped ==
    /\ pc = "insert"
    /\ records_to_insert = <<>>
    /\ insert_outcome' = "skipped"
    /\ pc' = "copy"
    /\ UNCHANGED <<config, response, fetch_result, merged_before, embed_call, ever_failed,
                   pvars, ndjson_fs, local_csv, source, backup, csv_of, collection,
                   oldest_blob, local_ndjson_output_path, df_cleaned_csv,
                   urls_to_fetch, extracted_articles_data, records_to_insert, row_idx,
                   sentence_transformer_model, processed_files_count,
                   mongo_closed, copy_outcome>>

\* variant of InsertRaises: insert_many's exception swallowed: the archive step runs
InsertRaisesSwallowed ==
    /\ pc = "insert"
    /\ records_to_insert # <<>>
    /\ insert_outcome' = "failed"
    /\ pc' = "copy"
    /\ UNCHANGED <<config, response, fetch_result, merged_before, embed_call, ever_failed,
                   pvars, ndjson_fs, local_csv, source, backup, csv_of, collection,
                   oldest_blob, local_ndjson_output_path, df_cleaned_csv,
                   urls_to_fetch, extracted_articles_data, records_to_insert, row_idx,
                   sentence_transformer_model, processed_files_count,
                   mongo_closed, copy_outcome>>

\* line 348 raises (BulkWriteError, network)
InsertRaises ==
    /\ pc = "insert"
    /\ records_to_insert # <<>>
    /\ insert_outcome' = "failed"
    /\ pc' = "except"
    /\ UNCHANGED <<config, response, fetch_result, merged_before, embed_call, ever_failed,
                   pvars, ndjson_fs, local_csv, source, backup, csv_of, collection,
                   oldest_blob, local_ndjson_output_path, df_cleaned_csv,
                   urls_to_fetch, extracted_articles_data, records_to_insert, row_idx,
                   sentence_transformer_model, processed_files_count,
                   mongo_closed, copy_outcome>>

\* line 359: copy_blob to backup_data/ returns
CopyOk ==
    /\ pc = "copy"
    /\ backup' = backup \cup {oldest_blob}
    /\ copy_outcome' = "ok"
    /\ pc' = "delete"
    /\ UNCHANGED <<config, response, fetch_result, merged_before, embed_call, ever_failed,
                   pvars, ndjson_fs, local_csv, source, csv_of, collection,
                   oldest_blob, local_ndjson_output_path, df_cleaned_csv,
                   urls_to_fetch, extracted_articles_data, records_to_insert, row_idx,
                   sentence_transformer_model, processed_files_count, mongo_closed,
                   insert_outcome>>

\* variant of CopyRaises: the delete attempted although copy_blob raised
CopyRaisesThenDelete ==
    /\ pc = "copy"
    /\ copy_outcome' = "failed"
    /\ pc' = "delete"
    /\ ever_failed' = TRUE
    /\ UNCHANGED <<config, response, fetch_result, merged_before, embed_call,
                   pvars, ndjson_fs, local_csv, source, backup, csv_of, collection,
                   oldest_blob, local_ndjson_output_path, df_cleaned_csv,
                   urls_to_fetch, extracted_articles_data, records_to_insert, row_idx,
                   sentence_transformer_model, processed_files_count, mongo_closed,
                   insert_outcome>>

\* line 359 raises: the inner except (365-367) catches it, line 363 is
\* skipped, line 369 counts the file
CopyRaises ==
    /\ pc = "copy"
    /\ copy_outcome' = "failed"
    /\ processed_files_count' = processed_files_count + 1
    /\ pc' = "finally"
    /\ ever_failed' = TRUE
    /\ UNCHANGED <<config, response, fetch_result, merged_before, embed_call,
                   pvars, ndjson_fs, local_csv, source, backup, csv_of, collection,
                   oldest_blob, local_ndjson_output_path, df_cleaned_csv,
                   urls_to_fetch, extracted_articles_data, records_to_insert, row_idx,
                   sentence_transformer_model, mongo_closed, insert_outcome>>

\* line 363: the original is deleted; line 369
DeleteOk ==
    /\ pc = "delete"
    /\ source' = source \ {oldest_blob}
    /\ processed_files_count' = processed_files_count + 1
    /\ pc' = "finally"
    /\ UNCHANGED <<config, response, fetch_result, merged_before, embed_call, ever_failed,
                   pvars, ndjson_fs, local_csv, backup, csv_of, collection,
                   oldest_blob, local_ndjson_output_path, df_cleaned_csv,
                   urls_to_fetch, extracted_articles_data, records_to_insert, row_idx,
                   sentence_transformer_model, mongo_closed,
                   insert_outcome, copy_outcome>>

\* line 363 raises: caught at 365; line 369
DeleteRaises ==
    /\ pc = "delete"
    /\ processed_files_count' = processed_files_count + 1
    /\ pc' = "finally"
    /\ ever_failed' = TRUE
    /\ UNCHANGED <<config, response, fetch_result, merged_before, embed_call,
                   pvars, ndjson_fs, local_csv, source, backup, csv_of, collection,
                   oldest_blob, local_ndjson_output_path, df_cleaned_csv,
                   urls_to_fetch, extracted_articles_data, records_to_insert, row_idx,
                   sentence_transformer_model, mongo_closed,
                   insert_outcome, copy_outcome>>

\* variant of Except: the handler drops the failed file from the source prefix
ExceptDiscards ==
    /\ pc = "except"
    /\ pc' = "finally"
    /\ ever_failed' = TRUE
    /\ source' = source \ {oldest_blob}
    /\ UNCHANGED <<config, response, fetch_result, merged_before, embed_call,
                   pvars, ndjson_fs, local_csv, backup, csv_of, collection,
                   oldest_blob, local_ndjson_output_path, df_cleaned_csv,
                   urls_to_fetch, extracted_articles_data, records_to_insert, row_idx,
                   sentence_transformer_model, processed_files_count, mongo_closed,
                   insert_outcome, copy_outcome>>

\* lines 371-375: the batch-level handler
Except ==
    /\ pc = "except"
    /\ pc' = "finally"
    /\ ever_failed' = TRUE
    /\ UNCHANGED <<config, response, fetch_result, merged_before, embed_call,
                   pvars, ndjson_fs, local_csv, source, backup, csv_of, collection,
                   oldest_blob, local_ndjson_output_path, df_cleaned_csv,
                   urls_to_fetch, extracted_articles_data, records_to_insert, row_idx,
                   sentence_transformer_model, processed_files_count, mongo_closed,
                   insert_outcome, copy_outcome>>

\* variant of Finally: the scratch CSV is not removed
FinallyKeepsCsv ==
    /\ pc = "finally"
    /\ local_ndjson_output_path # Unbound
    /\ RemoveLog(local_ndjson_output_path)
    /\ df_cleaned_csv' = NoFrame
    /\ urls_to_fetch' = <<>>
    /\ extracted_articles_data' = <<>>
    /\ records_to_insert' = <<>>
    /\ row_idx' = 1
    /\ pc' = "scan"
    /\ UNCHANGED <<config, response, fetch_result, merged_before, embed_call,
                   ever_failed, pvars, local_csv, source, backup, csv_of,
                   collection, oldest_blob, local_ndjson_output_path,
                   sentence_transformer_model, processed_files_count,
                   mongo_closed, insert_outcome, copy_outcome>>

\* lines 376-383 with local_ndjson_output_path bound: both scratch files are
\* removed and the loop goes round.  df_cleaned_csv, urls_to_fetch,
\* extracted_articles_data and records_to_insert are dead from here on (each
\* is assigned before its next read) and are cleared.
Finally ==
    /\ pc = "finally"
    /\ local_ndjson_output_path # Unbound
    /\ local_csv' = local_csv \ {oldest_blob}
    /\ RemoveLog(local_ndjson_output_path)
    /\ df_cleaned_csv' = NoFrame
    /\ urls_to_fetch' = <<>>
    /\ extracted_articles_data' = <<>>
    /\ records_to_insert' = <<>>
    /\ row_idx' = 1
    /\ pc' = "scan"
    /\ UNCHANGED <<config, response, fetch_result, merged_before, embed_call, ever_failed,
                   pvars, source, backup, csv_of, collection, oldest_blob,
                   local_ndjson_output_path, sentence_transformer_model,
                   processed_files_count, mongo_closed,
                   insert_outcome, copy_outcome>>

\* lines 376-381 with local_ndjson_output_path never assigned: the CSV is
\* removed, then line 381 raises NameError out of the finally block and out
\* of the loop
FinallyNameError ==
    /\ pc = "finally"
    /\ local_ndjson_output_path = Unbound
    /\ local_csv' = local_csv \ {oldest_blob}
    /\ pc' = "terminated"
    /\ UNCHANGED <<config, response, fetch_result, merged_before, embed_call, ever_failed,
                   pvars, ndjson_fs, source, backup, csv_of, collection, oldest_blob,
                   local_ndjson_output_path, df_cleaned_csv, urls_to_fetch,
                   extracted_articles_data, records_to_insert, row_idx,
                   sentence_transformer_model, processed_files_count, mongo_closed,
                   insert_outcome, copy_outcome>>

BatchStep ==
    \/ ScanSelect
    \/ ScanNone
    \/ DownloadOk
    \/ DownloadRaises
    \/ ReadCsvRaises
    \/ ReadCsvNoUrls
    \/ ReadCsvRunPipeline
    \/ ReadBack
    \/ PipelineRaised
    \/ \E o \in {"vector", "encode_failed", "load_failed", "not_called"} : MergeRow(o)
    \/ MergeRaises
    \/ InsertOk
    \/ InsertSkipped
    \/ InsertRaises
    \/ CopyOk
    \/ CopyRaises
    \/ DeleteOk
    \/ DeleteRaises
    \/ Except
    \/ Finally
    \/ FinallyNameError

(* -------------------------------- Spec --------------------------------- *)
\* the state at line 242: clients set up, nothing processed, no scratch files
Init ==
    /\ main_pc = "idle"
    /\ urls = <<>>
    /\ out_path = Unbound
    /\ sem = 0
    /\ waiting = {}
    /\ inflight = {}
    /\ completed = <<>>
    /\ prod_pc = "done"
    /\ prod_item = Sentinel
    /\ yielded = 0
    /\ sentinels_put = 0
    /\ queue = <<>>
    /\ cons_pc = [c \in Consumers |-> "exited"]
    /\ cons_item = [c \in Consumers |-> Sentinel]
    /\ ndjson_fs = <<>>
    /\ local_csv = {}
    /\ source = AllBlobs
    /\ backup = {}
    /\ csv_of \in [Files -> CsvChoices]
    /\ collection = [b \in Files |-> 0]
    /\ pc = "scan"
    /\ oldest_blob = Unbound
    /\ local_ndjson_output_path = Unbound
    /\ df_cleaned_csv = NoFrame
    /\ urls_to_fetch = <<>>
    /\ extracted_articles_data = <<>>
    /\ records_to_insert = <<>>
    /\ row_idx = 1
    /\ sentence_transformer_model = None
    /\ processed_files_count = 0
    /\ mongo_closed = FALSE
    /\ insert_outcome = "none"
    /\ copy_outcome = "none"
    /\ ever_failed = FALSE
    /\ config = AllSet
    /\ response = NoResponse
    /\ fetch_result = NotCalled
    /\ merged_before = <<>>
    /\ embed_call = NoCall

Next == BatchStep \/ PipelineStep

Spec == Init /\ [][Next]_vars

(* ------------------------------ SpecPipe ------------------------------- *)
\* the state at line 295 for a batch of NumUrls rows with distinct URLs,
\* right after main_async_pipeline has started; the old log was removed
InitPipe ==
    /\ main_pc = "producer"
    /\ urls = PipeUrls
    /\ out_path = 1
    /\ sem = CONN
    /\ waiting = Range(PipeUrls)
    /\ inflight = {}
    /\ completed = <<>>
    /\ prod_pc = "next"
    /\ prod_item = Sentinel
    /\ yielded = 0
    /\ sentinels_put = 0
    /\ queue = <<>>
    /\ cons_pc = [c \in Consumers |-> "get"]
    /\ cons_item = [c \in Consumers |-> Sentinel]
    /\ ndjson_fs = <<>>
    /\ local_csv = {1}
    /\ source = AllBlobs
    /\ backup = {}
    /\ csv_of = [b \in Files |-> Csv(AllColumns, PipeUrls)]
    /\ collection = [b \in Files |-> 0]
    /\ pc = "pipeline"
    /\ oldest_blob = 1
    /\ local_ndjson_output_path = 1
    /\ df_cleaned_csv = Csv(AllColumns, PipeUrls)
    /\ urls_to_fetch = PipeUrls
    /\ extracted_articles_data = <<>>
    /\ records_to_insert = <<>>
    /\ row_idx = 1
    /\ sentence_transformer_model = None
    /\ processed_files_count = 0
    /\ mongo_closed = FALSE
    /\ insert_outcome = "none"
    /\ copy_outcome = "none"
    /\ ever_failed = FALSE
    /\ config = AllSet
    /\ response = NoResponse
    /\ fetch_result = NotCalled
    /\ merged_before = <<>>
    /\ embed_call = NoCall

NextPipe == PipelineStep

SpecPipe == InitPipe /\ [][NextPipe]_vars

(* ======================= properties: SpecPipe ========================== *)
Log == IF out_path \in DOMAIN ndjson_fs THEN ndjson_fs[out_path] ELSE <<>>
LoggedUrls == {Log[i].url : i \in 1..Len(Log)}
UrlItemsQueued == Cardinality({i \in 1..Len(queue) : queue[i].url # None})
SentinelsQueued == Cardinality({i \in 1..Len(queue) : queue[i].url = None})
Exited == {c \in Consumers : cons_pc[c] = "exited"}
Crashed == {c \in Consumers : cons_pc[c] = "crashed"}

\* C3: when main_async_pipeline has returned normally the log holds exactly
\* one entry per submitted URL (as many entries as URLs, none missing); and
\* at every moment no URL has two entries.
C3_OneEntryPerUrl ==
    /\ \A i, j \in 1..Len(Log) : Log[i].url = Log[j].url => i = j
    /\ LoggedUrls \subseteq Range(urls)
    /\ main_pc = "returned" =>
          /\ Len(Log) = Len(urls)
          /\ LoggedUrls = Range(urls)
C3_Witness ==
    /\ main_pc = "returned"
    /\ Len(Log) = NumUrls
    /\ \E i, j \in 1..Len(Log) :
          Log[i].error = "download_failed" /\ Log[j].error = None

\* C4: once a consumer has stopped abnormally the pass either has ended as
\* a failure or can still take a step: it is never blocked for good.
C4_FailsRatherThanBlocks ==
    Crashed # {} => (main_pc = "raised" \/ ENABLED NextPipe)

\* C5: at most CONN fetch_html calls are in flight at any moment.
C5_FetchCeiling == Cardinality(inflight) <= CONN
C5_Witness ==
    /\ Cardinality(inflight) = CONN
    /\ waiting # {}
    /\ completed # <<>>

Backlog ==
    UrlItemsQueued + Len(completed) + (IF prod_pc = "put" THEN 1 ELSE 0)
\* C6: the fetched results no consumer has taken yet (in the queue, in the
\* producer's hand, or finished and not yet handed to the producer) number
\* at most the queue capacity plus the concurrency ceiling.
C6_BoundedBacklog == Backlog <= QueueMaxsize + CONN

\* C7: sentinels are enqueued only after every URL's fetch result has been
\* enqueued; PROC of them in all; every consumer that has left its loop took
\* exactly one and nobody else took any; no URL item stands behind a
\* sentinel, so none is dequeued after one; when all consumers have left
\* their loops the queue is empty.
C7_ShutdownProtocol ==
    /\ sentinels_put > 0 =>
          /\ yielded = Len(urls)
          /\ waiting = {} /\ inflight = {} /\ completed = <<>>
    /\ sentinels_put <= PROC
    /\ prod_pc = "done" <=> sentinels_put = PROC
    /\ Cardinality(Exited) + SentinelsQueued = sentinels_put
    /\ \A i, j \in 1..Len(queue) :
          (i < j /\ queue[i].url = None) => queue[j].url = None
    /\ Exited # {} => UrlItemsQueued = 0 /\ yielded = Len(urls)
    /\ Exited = Consumers => queue = <<>> /\ prod_pc = "done"
C7_Witness ==
    /\ main_pc = "returned"
    /\ Exited = Consumers
    /\ queue = <<>>
    /\ sentinels_put = PROC

(* ========================= properties: Spec ============================ *)
RecordOfRow(r, row) ==
    /\ r.SQLDATE = row.SQLDATE
    /\ r.NumMentions = row.NumMentions
    /\ r.SOURCEURL = row.SOURCEURL
    /\ r.latitude = row.latitude
    /\ r.longitude = row.longitude
\* C1: when the merge loop has finished, records_to_insert has one record
\* per row of the batch CSV, in row order, whatever happened to the row's
\* URL; while the loop runs it has one record per row already visited.
C1_OneRecordPerRow ==
    /\ pc = "merge" => Len(records_to_insert) = row_idx - 1
    /\ pc \in {"insert", "copy", "delete"} =>
          Len(records_to_insert) = Len(df_cleaned_csv.rows)
    /\ pc \in {"merge", "insert", "copy", "delete"} =>
          \A i \in 1..Len(records_to_insert) :
              RecordOfRow(records_to_insert[i], df_cleaned_csv.rows[i])
C1_Witness ==
    /\ pc = "insert"
    /\ Len(records_to_insert) = 4
    /\ records_to_insert[2].SOURCEURL = NaN
    /\ records_to_insert[1].SOURCEURL = records_to_insert[3].SOURCEURL
    /\ records_to_insert[4].url = "B"

AllContentNull(r) ==
    r.title = None /\ r.text = None /\ r.summary = None /\ r.keywords = None
\* C2: every merged record carries real content, an error marker or the
\* no-match marker: none has all content fields null and no error.
C2_EveryRecordMarked ==
    \A i \in 1..Len(records_to_insert) :
        ~(/\ AllContentNull(records_to_insert[i])
          /\ records_to_insert[i].error \in {Absent, None})

\* C8: the batch file is copied and deleted only in an iteration whose
\* insert_many succeeded or had nothing to insert; in an iteration that
\* failed before or in the insert the file stays at its source key and the
\* iteration adds nothing to the archive.
C8_ArchiveOnlyAfterInsert ==
    /\ [](/\ pc \in {"copy", "delete"} => insert_outcome \in {"ok", "skipped"}
          /\ insert_outcome = "skipped" => records_to_insert = <<>>
          /\ (pc \in {"except", "finally"} /\ insert_outcome \in {"none", "failed"})
                => oldest_blob \in source)
    /\ [][/\ backup' # backup =>
                /\ insert_outcome \in {"ok", "skipped"}
                /\ backup' = backup \cup {oldest_blob}
          /\ source' # source =>
                /\ insert_outcome \in {"ok", "skipped"}
                /\ source' = source \ {oldest_blob}]_vars
C8_Witness ==
    /\ pc = "finally"
    /\ insert_outcome = "failed"
    /\ oldest_blob \in source
    /\ oldest_blob \notin backup

\* C9: the original is deleted only after this iteration's copy returned;
\* a failed copy is never followed by the delete; every batch file is at
\* its source key or at its archive key in every reachable state.
C9_CopyThenDelete ==
    /\ [](/\ \A b \in AllBlobs : b \in source \cup backup
          /\ pc = "delete" => copy_outcome = "ok" /\ oldest_blob \in backup)
    /\ [][source' # source =>
              /\ pc = "delete"
              /\ copy_outcome = "ok"
              /\ oldest_blob \in backup
              /\ source' = source \ {oldest_blob}]_vars
C9_Witness ==
    /\ pc = "finally"
    /\ copy_outcome = "failed"
    /\ oldest_blob \in source
    /\ \E b \in Files : b \notin source /\ b \in backup

\* C10: a batch-level failure never ends the process: no state has the
\* process terminated by an exception.
C10_FailureNeverTerminates == pc # "terminated"

(* ------------------------------ SpecScan ------------------------------- *)
\* nothing of main_async_pipeline exists outside asyncio.run
NoPipeline ==
    /\ main_pc = "idle"
    /\ urls = <<>>
    /\ out_path = Unbound
    /\ sem = 0
    /\ waiting = {}
    /\ inflight = {}
    /\ completed = <<>>
    /\ prod_pc = "done"
    /\ prod_item = Sentinel
    /\ yielded = 0
    /\ sentinels_put = 0
    /\ queue = <<>>
    /\ cons_pc = [c \in Consumers |-> "exited"]
    /\ cons_item = [c \in Consumers |-> Sentinel]

\* the names of __main__ before the first iteration of the loop
FreshLoop ==
    /\ oldest_blob = Unbound
    /\ local_ndjson_output_path = Unbound
    /\ df_cleaned_csv = NoFrame
    /\ urls_to_fetch = <<>>
    /\ extracted_articles_data = <<>>
    /\ records_to_insert = <<>>
    /\ row_idx = 1
    /\ sentence_transformer_model = None
    /\ processed_files_count = 0
    /\ mongo_closed = FALSE
    /\ insert_outcome = "none"
    /\ copy_outcome = "none"
    /\ ever_failed = FALSE

\* the state at line 242 with any set of names under cleaned_data/
InitScan ==
    /\ NoPipeline
    /\ FreshLoop
    /\ ndjson_fs = <<>>
    /\ local_csv = {}
    /\ source \in SUBSET ScanBlobs
    /\ backup = {}
    /\ csv_of = [b \in Files |-> Csv(AllColumns, <<"A">>)]
    /\ collection = [b \in Files |-> 0]
    /\ pc = "scan"
    /\ config = AllSet
    /\ response = NoResponse
    /\ fetch_result = NotCalled
    /\ merged_before = <<>>
    /\ embed_call = NoCall

\* one scan, lines 244-267
NextScan == ScanSelect \/ ScanNone

SpecScan == InitScan /\ [][NextScan]_vars

(* ======================= properties: SpecScan ========================== *)
\* a name that passes line 251 and whose timestamp part parses
Candidate(b) == EndsWithCleaned(b) /\ Strptime(b) # ValueError

\* C11: the blob a scan selects is under the prefix, ends in _cleaned.csv,
\* has a timestamp part that parses, and no such blob of the listing has an
\* earlier timestamp, whatever the listing order; and while such a blob
\* exists the scan selects one (names that do not parse neither end the scan
\* nor make it report that nothing is left).
C11_OldestSelected ==
    /\ pc = "download" =>
          /\ oldest_blob \in source
          /\ Candidate(oldest_blob)
          /\ \A b \in source :
                Candidate(b) => Strptime(oldest_blob) <= Strptime(b)
    /\ (pc = "scan" /\ \E b \in source : Candidate(b)) =>
          (ENABLED ScanSelect /\ ~ENABLED ScanNone)
\* blob 1 chosen over blob 2 with an unparsable and a suffix-less name present
C11_Witness ==
    /\ pc = "download"
    /\ oldest_blob = 1
    /\ {1, 2, BadBlob, NestedBlob, BareBlob} \subseteq source

(* ===================== properties: Spec, loop exit ===================== *)
\* C12: the loop is left by the break, with the client closed, exactly when
\* a scan finds no blob that passes line 251 and parses: in that case the
\* break is the only step, otherwise the break is not possible, and the
\* client is closed nowhere else.  When no iteration has run an except block
\* the break comes after as many iterations as there were well-formed batch
\* files at the start.
C12_NormalExit ==
    /\ pc = "done" => (mongo_closed /\ ~\E b \in source : Candidate(b))
    /\ mongo_closed => pc = "done"
    /\ (pc = "scan" /\ ~\E b \in source : Candidate(b)) =>
          (ENABLED ScanNone /\ ~ENABLED ScanSelect)
    /\ (pc = "scan" /\ \E b \in source : Candidate(b)) => ~ENABLED ScanNone
    /\ (pc = "done" /\ ~ever_failed) => processed_files_count = NumFiles
\* every batch file archived without a failure, then the break
C12_Witness ==
    /\ pc = "done"
    /\ ~ever_failed
    /\ processed_files_count = NumFiles
    /\ source = {BadBlob}
    /\ backup = Files

(* ==================== properties: SpecPipe, failures =================== *)
\* the entries of the log that carry an error marker
ErrorEntries == {i \in 1..Len(Log) : Log[i].error # None}
\* a consumer takes an item without html off the queue and none dies
TakesAbsent ==
    /\ queue # <<>>
    /\ Head(queue).url # None
    /\ Head(queue).html = None
    /\ queue' = Tail(queue)
    /\ \A c \in Consumers : cons_pc'[c] = "crashed" => cons_pc[c] = "crashed"
\* consumer c gets its item's result, or the pool's exception, and does not die
LeavesParse(c) ==
    /\ cons_pc[c] = "parse"
    /\ cons_pc'[c] \notin {"parse", "crashed", "cancelled"}

\* C13: a URL whose fetch gave no html, whose parse_article failed or whose
\* pool call raised costs the pass nothing but that URL's content: the
\* consumer that took it is back at queue.get() with one new entry for that
\* URL in the log (error-marked when the html was absent), the pass raises
\* only when a consumer died on the log file itself, and a pass that returned
\* with error entries still has an entry for every URL.
C13_ItemFailureContained ==
    /\ [](main_pc = "raised" => Crashed # {})
    /\ []((main_pc = "returned" /\ ErrorEntries # {}) => LoggedUrls = Range(urls))
    /\ [][ /\ TakesAbsent =>
                /\ cons_pc' = cons_pc
                /\ Log' = Append(Log, Entry(Head(queue).url, Failed("download_failed")))
           /\ \A c \in Consumers : LeavesParse(c) =>
                /\ cons_pc'[c] = "get"
                /\ Len(Log') = Len(Log) + 1
                /\ Log' [Len(Log')].url = cons_item[c].url
                /\ SubSeq(Log', 1, Len(Log)) = Log ]_vars
\* a returned pass with a download_failed entry, a parse_error entry and a
\* parsed entry, each for a different URL, and one entry per URL
C13_Witness ==
    /\ main_pc = "returned"
    /\ Crashed = {}
    /\ \E i, j, k \in 1..Len(Log) :
          /\ Log[i].error = "download_failed"
          /\ Log[j].error = "parse_error"
          /\ Log[k].error = None
    /\ LoggedUrls = Range(urls)
    /\ Len(Log) = Len(urls)

(* ===================== properties: Spec, the merge ===================== *)
\* C14: a merged record whose row's URL has a log entry with an error marker
\* has null title, text, summary and keywords and carries that entry's error
\* string in its error field.
C14_ErrorCarriedOver ==
    pc \in {"merge", "insert", "copy", "delete"} =>
        \A i \in 1..Len(records_to_insert) :
            LET r == records_to_insert[i]
                u == r.SOURCEURL
            IN (/\ u \in LookupKeys(extracted_articles_data)
                /\ Lookup(extracted_articles_data, u).error # None)
               => (/\ AllContentNull(r)
                   /\ r.error = Lookup(extracted_articles_data, u).error)

(* ------------------------------ SpecMerge ------------------------------ *)
\* the results a log entry can hold: parse_article's dictionaries, with a
\* summary that is text, empty, blank or the word null, and the two failures
MergeResults ==
    ParseResults \cup {ParsedOk(" "), ParsedOk("null"), Failed("download_failed")}
\* the logs read back at lines 298-306 for the URLs A and B: one entry each
\* in either order, or the entry of B lost (a line that is not JSON, 304)
MergeLogs ==
    {<<Entry("A", ra), Entry("B", rb)>> : ra \in MergeResults, rb \in MergeResults}
    \cup {<<Entry("B", rb), Entry("A", ra)>> : ra \in MergeResults, rb \in MergeResults}
    \cup {<<Entry("A", ra)>> : ra \in MergeResults}
MergeCsv == Csv(AllColumns, <<"A", NaN, "A", "B">>)

\* the state at line 312 for batch file 1 and any such log
InitMerge ==
    /\ NoPipeline
    /\ extracted_articles_data \in MergeLogs
    /\ ndjson_fs = [p \in {1} |-> extracted_articles_data]
    /\ local_csv = {1}
    /\ source = AllBlobs
    /\ backup = {}
    /\ csv_of = [b \in Files |-> MergeCsv]
    /\ collection = [b \in Files |-> 0]
    /\ pc = "merge"
    /\ oldest_blob = 1
    /\ local_ndjson_output_path = 1
    /\ df_cleaned_csv = MergeCsv
    /\ urls_to_fetch = UniqueUrls(MergeCsv.rows, Len(MergeCsv.rows))
    /\ records_to_insert = <<>>
    /\ row_idx = 1
    /\ sentence_transformer_model \in {None, "loaded"}
    /\ processed_files_count = 0
    /\ mongo_closed = FALSE
    /\ insert_outcome = "none"
    /\ copy_outcome = "none"
    /\ ever_failed = FALSE
    /\ config = AllSet
    /\ response = NoResponse
    /\ fetch_result = NotCalled
    /\ merged_before = <<>>
    /\ embed_call = NoCall

\* the merge loop, lines 312-343
NextMerge ==
    \E o \in {"vector", "encode_failed", "load_failed", "not_called"} : MergeRow(o)

SpecMerge == InitMerge /\ [][NextMerge]_vars

(* ======================= properties: SpecMerge ========================= *)
\* the record shows that get_embeddings was called for it
MarkedAttempted(r) ==
    r.summary_embedding = "vector" \/ r.embedding_error # Absent
\* one of the three shapes: the vector alone, the error alone, neither
MarkersWellFormed(r) ==
    \/ r.summary_embedding = "vector" /\ r.embedding_error = Absent
    \/ /\ r.summary_embedding = Absent
       /\ r.embedding_error = "embedding_generation_failed"
    \/ r.summary_embedding \in {None, Absent} /\ r.embedding_error = Absent

Content(r) == <<r.title, r.text, r.summary, r.keywords>>

\* C16: the list handed to the pipeline holds every non-null SOURCEURL of
\* the batch once and nothing else; within the pass a URL enters fetch_html
\* only from the set of URLs not yet fetched and never returns to it, and a
\* pass that returned has fetched them all; at merge a row whose URL has a
\* log entry gets that entry's title, text, summary and keywords, so rows
\* with the same URL agree on them.
C16_FetchedOnceSharedContent ==
    /\ [](pc \in {"pipeline", "merge", "insert", "copy", "delete"} =>
            /\ \A i, j \in 1..Len(urls_to_fetch) :
                  urls_to_fetch[i] = urls_to_fetch[j] => i = j
            /\ Range(urls_to_fetch) =
                  {df_cleaned_csv.rows[i].SOURCEURL :
                      i \in 1..Len(df_cleaned_csv.rows)} \ {NaN})
    /\ []((pc = "pipeline" /\ main_pc = "returned") =>
            (waiting = {} /\ inflight = {}))
    /\ [](pc \in {"merge", "insert", "copy", "delete"} =>
            \A i, j \in 1..Len(records_to_insert) :
                LET r == records_to_insert[i]
                    q == records_to_insert[j]
                IN /\ r.SOURCEURL \in LookupKeys(extracted_articles_data) =>
                        Content(r) =
                          Content(Lookup(extracted_articles_data, r.SOURCEURL))
                   /\ r.SOURCEURL = q.SOURCEURL => Content(r) = Content(q))
    /\ [][ /\ (pc = "read_csv" /\ pc' = "pipeline") =>
                (urls' = urls_to_fetch' /\ waiting' = Range(urls_to_fetch'))
           /\ (pc = "pipeline" /\ pc' = "pipeline") =>
                /\ waiting' \subseteq waiting
                /\ \A u \in inflight' \ inflight : u \in waiting \ waiting'
         ]_vars
\* the batch with URL A in two rows: fetched as <<A, B>>, both rows of A
\* with the parsed fields
C16_Witness ==
    /\ pc = "insert"
    /\ urls_to_fetch = <<"A", "B">>
    /\ Len(records_to_insert) = 4
    /\ records_to_insert[1].SOURCEURL = "A"
    /\ records_to_insert[3].SOURCEURL = "A"
    /\ records_to_insert[1].title = "title"
    /\ records_to_insert[3].title = "title"

(* ------------------------------ SpecFetch ------------------------------ *)
\* a pass over the single URL A whose bounded_fetch holds the semaphore and
\* is inside fetch_html, about to meet any of the responses
InitFetch ==
    /\ main_pc = "producer"
    /\ urls = <<"A">>
    /\ out_path = 1
    /\ sem = CONN - 1
    /\ waiting = {}
    /\ inflight = {"A"}
    /\ completed = <<>>
    /\ prod_pc = "next"
    /\ prod_item = Sentinel
    /\ yielded = 0
    /\ sentinels_put = 0
    /\ queue = <<>>
    /\ cons_pc = [c \in Consumers |-> "get"]
    /\ cons_item = [c \in Consumers |-> Sentinel]
    /\ ndjson_fs = <<>>
    /\ local_csv = {1}
    /\ source = AllBlobs
    /\ backup = {}
    /\ csv_of = [b \in Files |-> Csv(AllColumns, <<"A">>)]
    /\ collection = [b \in Files |-> 0]
    /\ pc = "pipeline"
    /\ oldest_blob = 1
    /\ local_ndjson_output_path = 1
    /\ df_cleaned_csv = Csv(AllColumns, <<"A">>)
    /\ urls_to_fetch = <<"A">>
    /\ extracted_articles_data = <<>>
    /\ records_to_insert = <<>>
    /\ row_idx = 1
    /\ sentence_transformer_model = None
    /\ processed_files_count = 0
    /\ mongo_closed = FALSE
    /\ insert_outcome = "none"
    /\ copy_outcome = "none"
    /\ ever_failed = FALSE
    /\ config = AllSet
    /\ response \in Responses
    /\ fetch_result = NotCalled
    /\ merged_before = <<>>
    /\ embed_call = NoCall

\* fetch_html runs from line 64 to one of its return statements
FetchHtmlCall ==
    /\ Running
    /\ response # NoResponse
    /\ fetch_result = NotCalled
    /\ \E u \in inflight : fetch_result' = FetchHtml(u, response)
    /\ UNCHANGED <<pvars, ndjson_fs, local_csv, source, backup, csv_of, collection,
                   pc, oldest_blob, local_ndjson_output_path, df_cleaned_csv,
                   urls_to_fetch, extracted_articles_data, records_to_insert,
                   row_idx, sentence_transformer_model, processed_files_count,
                   mongo_closed, insert_outcome, copy_outcome, ever_failed,
                   config, response, merged_before, embed_call>>

NextFetch == FetchHtmlCall

SpecFetch == InitFetch /\ [][NextFetch]_vars

(* ======================= properties: SpecFetch ========================= *)
\* the call has returned and had read the body
ReadBody ==
    /\ fetch_result # NotCalled
    /\ response.get_exc = "none"
    /\ response.status < 400
    /\ response.read_exc = "none"
\* the text the stated fallback order gives, and the codecs it tries
OrderText(charset, raw) ==
    IF charset # "" /\ Decode(raw, charset).exc = "none"
       THEN Decode(raw, charset).text
    ELSE IF Utf8(raw).exc = "none" THEN Utf8(raw).text
    ELSE IF Latin1(raw).exc = "none" THEN Latin1(raw).text
    ELSE NoneText
OrderTried(charset, raw) ==
    IF charset # "" /\ Decode(raw, charset).exc = "none" THEN <<charset>>
    ELSE (IF charset # "" THEN <<charset>> ELSE <<>>)
         \o (IF Utf8(raw).exc = "none" THEN <<"utf-8">>
             ELSE <<"utf-8", "latin-1">>)

\* C17: once the body is read, decoded_text is the declared charset's
\* decoding if a charset is declared and decodes the bytes, else the strict
\* UTF-8 decoding if there is one, else the Latin-1 decoding, and absent
\* only if Latin-1 fails too; the codecs tried are exactly those up to the
\* first that succeeds.
C17_FallbackOrder ==
    ReadBody =>
        /\ fetch_result.decoded_text = OrderText(response.charset, response.body)
        /\ fetch_result.tried = OrderTried(response.charset, response.body)

StorageClientRaises ==
    /\ pc = "startup"
    /\ pc' = "startup_failed"
    /\ UNCHANGED <<pvars, ndjson_fs, local_csv, source, backup, csv_of, collection,
                   oldest_blob, local_ndjson_output_path, df_cleaned_csv,
                   urls_to_fetch, extracted_articles_data, records_to_insert,
                   row_idx, sentence_transformer_model, processed_files_count,
                   mongo_closed, insert_outcome, copy_outcome, ever_failed,
                   config, response, fetch_result, merged_before, embed_call>>

\* lines 214-218: GCS_BUCKET_NAME is not set, ValueError ends the process
BucketNameMissing ==
    /\ pc = "startup"
    /\ ~config["GCS_BUCKET_NAME"]
    /\ pc' = "startup_failed"
    /\ UNCHANGED <<pvars, ndjson_fs, local_csv, source, backup, csv_of, collection,
                   oldest_blob, local_ndjson_output_path, df_cleaned_csv,
                   urls_to_fetch, extracted_articles_data, records_to_insert,
                   row_idx, sentence_transformer_model, processed_files_count,
                   mongo_closed, insert_outcome, copy_outcome, ever_failed,
                   config, response, fetch_result, merged_before, embed_call>>

\* lines 212-225: the bucket handle is made and connect_to_mongodb is called
BucketNameSet ==
    /\ pc = "startup"
    /\ config["GCS_BUCKET_NAME"]
    /\ pc' = "connect"
    /\ UNCHANGED <<pvars, ndjson_fs, local_csv, source, backup, csv_of, collection,
                   oldest_blob, local_ndjson_output_path, df_cleaned_csv,
                   urls_to_fetch, extracted_articles_data, records_to_insert,
                   row_idx, sentence_transformer_model, processed_files_count,
                   mongo_closed, insert_outcome, copy_outcome, ever_failed,
                   config, response, fetch_result, merged_before, embed_call>>

\* `if not username or not password or not host`, line 189
MongoConfigComplete ==
    /\ config["MONGODB_USERNAME"]
    /\ config["MONGODB_PASSWORD"]
    /\ config["MONGODB_HOST"]

\* lines 189-190: ValueError out of connect_to_mongodb and out of line 225
MongoConfigMissing ==
    /\ pc = "connect"
    /\ ~MongoConfigComplete
    /\ pc' = "startup_failed"
    /\ UNCHANGED <<pvars, ndjson_fs, local_csv, source, backup, csv_of, collection,
                   oldest_blob, local_ndjson_output_path, df_cleaned_csv,
                   urls_to_fetch, extracted_articles_data, records_to_insert,
                   row_idx, sentence_transformer_model, processed_files_count,
                   mongo_closed, insert_outcome, copy_outcome, ever_failed,
                   config, response, fetch_result, merged_before, embed_call>>

\* variant of MongoConnectFails: the loop entered with mongo_client None
MongoConnectFailsIgnored ==
    /\ pc = "connect"
    /\ MongoConfigComplete
    /\ ~config["cluster answers"]
    /\ pc' = "scan"
    /\ UNCHANGED <<pvars, ndjson_fs, local_csv, source, backup, csv_of, collection,
                   oldest_blob, local_ndjson_output_path, df_cleaned_csv,
                   urls_to_fetch, extracted_articles_data, records_to_insert,
                   row_idx, sentence_transformer_model, processed_files_count,
                   mongo_closed, insert_outcome, copy_outcome, ever_failed,
                   config, response, fetch_result, merged_before, embed_call>>

\* lines 197-204 and 226-228: MongoClient or the ping raises
\* ConnectionFailure, connect_to_mongodb returns None and exit(1) follows
\* (any other exception is not caught and ends the process as well)
MongoConnectFails ==
    /\ pc = "connect"
    /\ MongoConfigComplete
    /\ ~config["cluster answers"]
    /\ pc' = "startup_failed"
    /\ UNCHANGED <<pvars, ndjson_fs, local_csv, source, backup, csv_of, collection,
                   oldest_blob, local_ndjson_output_path, df_cleaned_csv,
                   urls_to_fetch, extracted_articles_data, records_to_insert,
                   row_idx, sentence_transformer_model, processed_files_count,
                   mongo_closed, insert_outcome, copy_outcome, ever_failed,
                   config, response, fetch_result, merged_before, embed_call>>

\* lines 198-201 and 230-242: the client is returned and the loop is entered
MongoConnectOk ==
    /\ pc = "connect"
    /\ MongoConfigComplete
    /\ config["cluster answers"]
    /\ pc' = "scan"
    /\ UNCHANGED <<pvars, ndjson_fs, local_csv, source, backup, csv_of, collection,
                   oldest_blob, local_ndjson_output_path, df_cleaned_csv,
                   urls_to_fetch, extracted_articles_data, records_to_insert,
                   row_idx, sentence_transformer_model, processed_files_count,
                   mongo_closed, insert_outcome, copy_outcome, ever_failed,
                   config, response, fetch_result, merged_before, embed_call>>

StartupStep ==
    \/ StorageClientRaises
    \/ BucketNameMissing
    \/ BucketNameSet
    \/ MongoConfigMissing
    \/ MongoConnectFails
    \/ MongoConnectOk

\* the state at line 208, in any environment
InitStartup ==
    /\ NoPipeline
    /\ FreshLoop
    /\ ndjson_fs = <<>>
    /\ local_csv = {}
    /\ source = AllBlobs
    /\ backup = {}
    /\ csv_of \in [Files -> CsvChoices]
    /\ collection = [b \in Files |-> 0]
    /\ pc = "startup"
    /\ config \in Configs
    /\ response = NoResponse
    /\ fetch_result = NotCalled
    /\ merged_before = <<>>
    /\ embed_call = NoCall

NextStartup == StartupStep \/ Next

SpecStartup == InitStartup /\ [][NextStartup]_vars

(* ====================== properties: SpecStartup ======================== *)
\* no blob, document or scratch file has been touched
NothingDone ==
    /\ source = AllBlobs
    /\ backup = {}
    /\ collection = [b \in Files |-> 0]
    /\ local_csv = {}
    /\ ndjson_fs = <<>>
    /\ oldest_blob = Unbound
    /\ main_pc = "idle"

\* C19: the batch loop is entered only in an environment with all four
\* variables set and a cluster that answers; in any other environment the
\* process is at start-up or has stopped there, and a process stopped at
\* start-up has scanned, downloaded, inserted, copied and deleted nothing
\* and takes no further step.
C19_StopsAtStartup ==
    /\ config # AllSet => pc \in {"startup", "connect", "startup_failed"}
    /\ pc \in {"startup", "connect", "startup_failed"} => NothingDone
    /\ pc = "startup_failed" => ~ENABLED NextStartup
    /\ (pc = "connect" /\ config # AllSet) =>
          (ENABLED (MongoConfigMissing \/ MongoConnectFails)
           /\ ~ENABLED MongoConnectOk)
\* stopped by the missing MONGODB_HOST, the bucket name being set
C19_Witness ==
    /\ pc = "startup_failed"
    /\ config["GCS_BUCKET_NAME"]
    /\ ~config["MONGODB_HOST"]
    /\ NothingDone

(* ------------------------------ SpecRerun ------------------------------ *)
\* the log a pass over batch file 1 had written for URL A when the process
\* was killed inside asyncio.run (no finally block ran)
CrashLog == <<Entry("A", ParsedOk("written before the crash"))>>

\* the state at line 242 of the next run: batch file 1 is still under
\* cleaned_data/, its CSV and its log are still on the local disk
InitRerun ==
    /\ NoPipeline
    /\ FreshLoop
    /\ ndjson_fs = [p \in {1} |-> CrashLog]
    /\ local_csv = {1}
    /\ source = AllBlobs
    /\ backup = {}
    /\ csv_of \in {f \in [Files -> CsvChoices] : f[1] = MergeCsv}
    /\ collection = [b \in Files |-> 0]
    /\ pc = "scan"
    /\ config = AllSet
    /\ response = NoResponse
    /\ fetch_result = NotCalled
    /\ merged_before = <<>>
    /\ embed_call = NoCall

SpecRerun == InitRerun /\ [][Next]_vars

MergeAgainAppending ==
    /\ pc = "insert"
    /\ merged_before = <<>>
    /\ merged_before' = records_to_insert
    /\ row_idx' = 1
    /\ pc' = "merge"
    /\ UNCHANGED <<pvars, ndjson_fs, local_csv, source, backup, csv_of, collection,
                   oldest_blob, local_ndjson_output_path, df_cleaned_csv,
                   urls_to_fetch, extracted_articles_data, records_to_insert,
                   sentence_transformer_model, processed_files_count,
                   mongo_closed, insert_outcome, copy_outcome, ever_failed,
                   config, response, fetch_result, embed_call>>

\* lines 309-312 entered a second time with the same df_cleaned_csv and the
\* same extracted_articles_data, the first list kept aside for comparison
MergeAgain ==
    /\ pc = "insert"
    /\ merged_before = <<>>
    /\ merged_before' = records_to_insert
    /\ records_to_insert' = <<>>
    /\ row_idx' = 1
    /\ pc' = "merge"
    /\ UNCHANGED <<pvars, ndjson_fs, local_csv, source, backup, csv_of, collection,
                   oldest_blob, local_ndjson_output_path, df_cleaned_csv,
                   urls_to_fetch, extracted_articles_data,
                   sentence_transformer_model, processed_files_count,
                   mongo_closed, insert_outcome, copy_outcome, ever_failed,
                   config, response, fetch_result, embed_call>>

\* the merge loop, then the merge loop once more
NextRemerge == NextMerge \/ MergeAgain

SpecRemerge == InitMerge /\ [][NextRemerge]_vars

(* ====================== properties: SpecRemerge ======================== *)
\* get_embeddings behaved as a function of its text over both runs: records
\* built from a log entry with the same summary show the same outcome
PureEmbedding(recs) ==
    \A i, j \in 1..Len(recs) :
        (recs[i].url # Absent /\ recs[j].url # Absent
         /\ recs[i].summary = recs[j].summary)
        => /\ recs[i].summary_embedding = recs[j].summary_embedding
           /\ recs[i].embedding_error = recs[j].embedding_error

InScratch == local_csv \cup DOMAIN ndjson_fs

\* no pipeline of an earlier batch is still at work
PipelineQuiet ==
    /\ main_pc = "idle"
    /\ inflight = {}
    /\ queue = <<>>
    /\ \A c \in Consumers : cons_pc[c] = "exited"

\* C22: at most one batch file is in work: scratch files exist for the
\* selected file only, between two iterations there are none and no pipeline
\* runs, and the selected file changes only in a scan that starts from there.
C22_SingleFlight ==
    /\ [](/\ Cardinality(InScratch) <= 1
          /\ InScratch \subseteq {oldest_blob}
          /\ pc \in {"scan", "download", "done"}
                => (InScratch = {} /\ PipelineQuiet)
          /\ pc \notin {"pipeline"} => PipelineQuiet)
    /\ [][oldest_blob' # oldest_blob
             => (pc = "scan" /\ InScratch = {} /\ PipelineQuiet)]_vars
\* file 2 selected after file 1 went through pipeline, insert and archival
C22_Witness ==
    /\ pc = "download"
    /\ oldest_blob = 2
    /\ processed_files_count = 1
    /\ 1 \in backup
    /\ collection[1] = 1
    /\ InScratch = {}

(* ================== properties: Spec, retry of a failed file =========== *)
\* b is an oldest valid candidate of the source prefix
OldestCandidate(b) ==
    /\ b \in source
    /\ Candidate(b)
    /\ \A o \in source : Candidate(o) => Strptime(b) <= Strptime(o)

\* C23: a file whose iteration reaches the batch handler, or whose copy to
\* the backup prefix failed, is still at its source key, and stays there
\* through the handler and the cleanup; every scan that selects a file
\* selects an oldest valid candidate, and it selects the file of the previous
\* iteration again when that file is still an oldest valid candidate.
C23_FailedFileRetried ==
    /\ [][(pc' = "except" \/ copy_outcome' = "failed")
             => (oldest_blob' \in source')]_vars
    /\ [][(pc \in {"except", "finally"}) => UNCHANGED source]_vars
    /\ [][(pc = "scan" /\ pc' = "download")
             => /\ OldestCandidate(oldest_blob')
                /\ OldestCandidate(oldest_blob) => (oldest_blob' = oldest_blob)]_vars
\* file 1 selected again, with the newer file 2 waiting, after an iteration
\* that inserted its records and then failed to archive it
C23_Witness ==
    /\ pc = "download"
    /\ oldest_blob = 1
    /\ 2 \in source
    /\ collection[1] = 1
    /\ processed_files_count = 1
    /\ ever_failed

(* ================== properties: Spec, read-back after the pipeline ===== *)
\* a step that appends to some intermediate log
LogAppended ==
    \E p \in DOMAIN ndjson_fs :
        /\ p \in DOMAIN ndjson_fs'
        /\ Len(ndjson_fs'[p]) > Len(ndjson_fs[p])

\* C24: main_async_pipeline returns only when every consumer has exited; from
\* its return on, through read-back, merge, insert and archival, no step
\* appends to a log and no consumer is alive; what the merge works on is the
\* whole log as it is on disk.
C24_ReadBackAfterConsumers ==
    /\ [](main_pc = "returned" => \A c \in Consumers : cons_pc[c] = "exited")
    /\ [](pc \notin {"pipeline"} => \A c \in Consumers : cons_pc[c] = "exited")
    /\ [][(main_pc = "returned" \/ pc \notin {"read_csv", "pipeline"})
             => ~LogAppended]_vars
    /\ []((pc \in {"merge", "insert", "copy", "delete"}
           /\ local_ndjson_output_path \in DOMAIN ndjson_fs)
             => extracted_articles_data = ndjson_fs[local_ndjson_output_path])
\* the merge at work on a log of two entries written by the consumers
C24_Witness ==
    /\ pc = "merge"
    /\ local_ndjson_output_path \in DOMAIN ndjson_fs
    /\ Len(ndjson_fs[local_ndjson_output_path]) = 2
    /\ extracted_articles_data = ndjson_fs[local_ndjson_output_path]
    /\ \A c \in Consumers : cons_pc[c] = "exited"

(* ================== properties: SpecPipe, queue capacity =============== *)
\* C25: the queue never holds more than maxsize = 2*CONN items, fetch
\* results and sentinels together; while it is full neither put of the
\* producer can complete, and a producer that is at a put stays there until
\* a step has made the queue shorter.
C25_QueueBounded ==
    /\ [](Len(queue) <= QueueMaxsize)
    /\ [](Len(queue) = QueueMaxsize
            => (~ENABLED ProducerPut /\ ~ENABLED ProducerSentinel))
    /\ [][(/\ Len(queue) = QueueMaxsize
            /\ prod_pc \in {"put", "sentinels"}
            /\ Len(queue') >= Len(queue))
             => UNCHANGED <<prod_pc, prod_item, yielded, sentinels_put>>]_vars
\* a full queue holding a fetch result and a sentinel, the producer waiting
\* to put the next sentinel
C25_Witness ==
    /\ Len(queue) = QueueMaxsize
    /\ prod_pc = "sentinels"
    /\ SentinelsQueued >= 1
    /\ UrlItemsQueued >= 1

(* ================== properties: SpecRerun, scratch cleanup ============= *)
\* C26 as stated: when an iteration that selected a file is over (the loop is
\* back at the scan, or the iteration ended the loop), neither the scratch
\* CSV nor the intermediate log of that file exists.
C26_ScratchRemoved ==
    (pc \in {"scan", "terminated"} /\ oldest_blob # Unbound)
        => (oldest_blob \notin local_csv /\ oldest_blob \notin DOMAIN ndjson_fs)

(* ================== properties: SpecPipe, absent HTML ================== *)
\* a step that takes an item with a URL and no html off the queue
DequeuesAbsent ==
    /\ queue # <<>>
    /\ Head(queue).url # None
    /\ Head(queue).html = None
    /\ queue' = Tail(queue)

\* C27: a consumer waiting for the pool always holds an item with html; the
\* step that dequeues an item without html sends no consumer to the pool and,
\* unless the log file cannot be written, appends the entry with the four
\* content fields null and error download_failed for that URL.
C27_AbsentHtmlNotParsed ==
    /\ [](\A c \in Consumers :
            cons_pc[c] = "parse" =>
                (cons_item[c].url # None /\ cons_item[c].html # None))
    /\ [][DequeuesAbsent =>
            /\ \A c \in Consumers : cons_pc'[c] = "parse" => cons_pc[c] = "parse"
            /\ cons_item' = cons_item
            /\ \/ Log' = Append(Log, Entry(Head(queue).url, Failed("download_failed")))
               \/ (Log' = Log /\ \E c \in Consumers :
                                    cons_pc[c] = "get" /\ cons_pc'[c] = "crashed")
         ]_vars
\* a download_failed entry is in the log while a consumer waits for the
\* parse of an item that has html
C27_Witness ==
    /\ \E i \in 1..Len(Log) :
          /\ Log[i].error = "download_failed"
          /\ AllContentNull(Log[i])
    /\ \E c \in Consumers : cons_pc[c] = "parse" /\ cons_item[c].html # None
    /\ Crashed = {}

(* ================== properties: SpecPipe, shape of an entry ============ *)
\* none of title, text, summary, keywords is None
AllContentSet(r) ==
    r.title # None /\ r.text # None /\ r.summary # None /\ r.keywords # None

\* C28: every entry in the log either has an error string and its four
\* content fields null, or has a null error and all four content fields set
\* (a summary may be the empty string); nothing in between.
C28_ErrorIffNoContent ==
    \A i \in 1..Len(Log) :
        /\ Log[i].error # None => AllContentNull(Log[i])
        /\ Log[i].error = None => AllContentSet(Log[i])
        /\ Log[i].error # None <=> AllContentNull(Log[i])
\* a log with a download_failed entry, a parse_error entry, a parsed entry
\* and a parsed entry whose summary is the empty string
C28_Witness ==
    \E i, j, k, l \in 1..Len(Log) :
        /\ Log[i].error = "download_failed"
        /\ Log[j].error = "parse_error"
        /\ Log[k].error = None /\ Log[k].summary = "summary"
        /\ Log[l].error = None /\ Log[l].summary = ""

(* ------------------------------ SpecEmbed ------------------------------ *)
\* the values get_embeddings is called with: None, float NaN, the empty
\* string, a blank string and a summary
EmbedTexts == {None, NaN, "", " ", "summary"}
EmbedTypes == {"sentencetransformer", "other"}

\* the process at the first merge, line 312, with the handle as line 38
\* left it
InitEmbed ==
    /\ InitMerge
    /\ extracted_articles_data = <<Entry("A", ParsedOk("summary"))>>
    /\ sentence_transformer_model = None

\* one call of get_embeddings
GetEmbeddingsCall(text, embedding_type, load, encode) ==
    /\ embed_call.calls < MaxCalls
    /\ LET r == GetEmbeddings(text, embedding_type, sentence_transformer_model,
                              load, encode)
       IN /\ sentence_transformer_model' = r.handle
          /\ embed_call' =
                [calls |-> embed_call.calls + 1, text |-> text,
                 embedding_type |-> embedding_type, load |-> r.load,
                 encode |-> r.encode,
                 result |-> r.result,
                 constructions |-> embed_call.constructions + r.constructed,
                 failures |-> embed_call.failures
                                + (IF r.load = "failed" THEN 1 ELSE 0),
                 raised |-> r.raised]
    /\ UNCHANGED <<pvars, ndjson_fs, local_csv, source, backup, csv_of, collection,
                   pc, oldest_blob, local_ndjson_output_path, df_cleaned_csv,
                   urls_to_fetch, extracted_articles_data, records_to_insert,
                   row_idx, processed_files_count, mongo_closed, insert_outcome,
                   copy_outcome, ever_failed, config, response, fetch_result,
                   merged_before>>

NextEmbed ==
    \E text \in EmbedTexts, embedding_type \in EmbedTypes,
       load \in {"ok", "raises"}, encode \in {"ok", "raises"} :
        GetEmbeddingsCall(text, embedding_type, load, encode)

SpecEmbed == InitEmbed /\ [][NextEmbed]_vars

(* ======================= properties: SpecEmbed ========================= *)
\* C29: the handle is unset until a call constructs it; once set it stays
\* set; over any sequence of calls at most one construction succeeds, and
\* the handle is set exactly when one has; a call whose construction failed
\* leaves the handle unset and returns None.
C29_LazyMemoized ==
    /\ [](embed_call.calls = 0 =>
            (sentence_transformer_model = None /\ embed_call.constructions = 0))
    /\ [](embed_call.constructions <= 1)
    /\ [](sentence_transformer_model # None <=> embed_call.constructions = 1)
    /\ [](embed_call.load = "failed" =>
            (sentence_transformer_model = None /\ embed_call.result = None))
    /\ [][sentence_transformer_model # None
            => (/\ sentence_transformer_model' = sentence_transformer_model
                /\ embed_call'.constructions = embed_call.constructions)]_vars
\* a failed construction, then a successful one, then a call that reused
\* the handle and returned a vector
C29_Witness ==
    /\ embed_call.calls = 3
    /\ embed_call.failures = 1
    /\ embed_call.constructions = 1
    /\ embed_call.load = "none"
    /\ embed_call.embedding_type = "sentencetransformer"
    /\ embed_call.result = "vector"
    /\ sentence_transformer_model = "loaded"

\* C30 as stated: a call never raises; it returns None for None, NaN and the
\* empty string, after a failed construction, after a failed encode and for
\* an unsupported type; a vector comes back only for non-empty text with the
\* model loaded.
C30_AbsenceUnlessUsableText ==
    embed_call.calls > 0 =>
        /\ ~embed_call.raised
        /\ embed_call.text \in {None, NaN, ""} => embed_call.result = None
        /\ embed_call.load = "failed" => embed_call.result = None
        /\ embed_call.encode = "failed" => embed_call.result = None
        /\ embed_call.embedding_type # "sentencetransformer"
              => embed_call.result = None
        /\ embed_call.result # None =>
              /\ embed_call.text \notin {None, NaN, ""}
              /\ sentence_transformer_model = "loaded"

(* ================== properties: SpecPipe, whole log lines ============== *)
\* the lines a consumer can write for the URLs of the pass: one whole record
CompleteEntries ==
    {Entry(u, r) : u \in Range(urls),
                   r \in ParseResults \cup {Failed("download_failed")}}

\* the URL a consumer can be writing a line for in this step: the item it
\* waits on at the pool, or the item at the head of the queue
UrlsInHand ==
    {cons_item[c].url : c \in {d \in Consumers : cons_pc[d] = "parse"}}
    \cup (IF queue # <<>> THEN {Head(queue).url} ELSE {})

\* C31: under every interleaving of the consumers each line of the log is one
\* whole record of one URL of the pass; a step that changes the log appends
\* exactly one whole record, for a URL a consumer had in hand, to the lines
\* that were there; and no consumer is ever between opening the log and the
\* end of its write when another step runs.
C31_AppendsAtomic ==
    /\ [](\A i \in 1..Len(Log) : Log[i] \in CompleteEntries)
    /\ [](\A c \in Consumers :
            cons_pc[c] \in {"get", "parse", "exited", "crashed", "cancelled"})
    /\ [][Log' # Log =>
            /\ Len(Log') = Len(Log) + 1
            /\ SubSeq(Log', 1, Len(Log)) = Log
            /\ Log'[Len(Log')] \in CompleteEntries
            /\ Log'[Len(Log')].url \in UrlsInHand]_vars
\* both consumers wait for a parse while the log already holds two lines,
\* one written after a parse and one for a failed download
C31_Witness ==
    /\ \A c \in Consumers : cons_pc[c] = "parse"
    /\ Len(Log) = 2
    /\ \E i, j \in 1..Len(Log) :
          /\ Log[i].error = None
          /\ Log[j].error = "download_failed"
    /\ \A i \in 1..Len(Log) : Log[i] \in CompleteEntries

(* ================== properties: Spec, archived files =================== *)
\* C32 as stated: a scan never selects a file that is already in the archive
\* prefix, and no insert is made for such a file, also after a delete that
\* failed behind a successful copy.
C32_ArchivedNeverReselected ==
    /\ [][(pc = "scan" /\ pc' = "download") => (oldest_blob' \notin backup)]_vars
    /\ [][\A b \in Files :
            (collection'[b] # collection[b]) => (b \notin backup)]_vars

====
